---------------------------- MODULE Spec2Model ----------------------------
(***************************************************************************)
(* Model of the import-and-metrics engine of datsun80zx/sta:               *)
(*   - internal/importer  (src/unnamed/part_008 lines 160-791,             *)
(*                         src/unnamed/part_009)                           *)
(*   - internal/metrics   (src/unnamed/part_010,                           *)
(*                         src/internal/metrics/technician_metrics.go)     *)
(*   - the SQL the importer runs (src/unnamed/part_005..007,               *)
(*     src/queries/*.sql) against the schema of the migrations             *)
(*     (src/unnamed/part_002, src/migrations/*.sql).                       *)
(*                                                                         *)
(* The database is PostgreSQL (src/cmd/sta/main.go:9 imports lib/pq):      *)
(* tables are sets of rows, a transaction works on a private copy of the   *)
(* tables that Commit publishes and Rollback discards, sequences           *)
(* (BIGSERIAL) are not transactional, and a statement the server rejects   *)
(* leaves the transaction aborted (every later statement in it fails).     *)
(*                                                                         *)
(* decimal.Decimal values are fixed-point integers with DivisionPrecision  *)
(* fractional digits: Dec(n) is the decimal n.                             *)
(***************************************************************************)
EXTENDS Integers, Sequences, FiniteSets, TLC

\* Fractional digits kept by decimal.Decimal.Div (shopspring's DivisionPrecision
\* is 16; the model keeps fewer digits so that products stay inside TLC's integers).
DivisionPrecision == 2

RECURSIVE Pow10(_)
Pow10(n) == IF n = 0 THEN 1 ELSE 10 * Pow10(n - 1)

One == Pow10(DivisionPrecision)

\* decimal.NewFromInt(n)
Dec(n) == n * One

Abs(x) == IF x < 0 THEN -x ELSE x

\* Integer quotient a / b rounded half away from zero (b # 0).
RoundDiv(a, b) ==
    LET q == (2 * Abs(a) + Abs(b)) \div (2 * Abs(b))
    IN  IF (a < 0) = (b < 0) THEN q ELSE -q

\* d.Div(d2): the quotient rounded to DivisionPrecision digits.  Every call
\* in the source is guarded by a test that d2 is not zero.
DecDiv(a, b) == RoundDiv(a * One, b)

\* d.Mul(d2)
DecMul(a, b) == RoundDiv(a * b, One)

\* decimal.NullDecimal / sql.NullTime / sql.NullString: {value, Valid}.
NullDec == [Valid |-> FALSE, Decimal |-> 0]
SomeDec(d) == [Valid |-> TRUE, Decimal |-> d]

RECURSIVE SeqSum(_)
SeqSum(s) == IF Len(s) = 0 THEN 0 ELSE Head(s) + SeqSum(Tail(s))

\* All sequences over S of length 0..n.
RECURSIVE SeqsUpTo(_, _)
SeqsUpTo(S, n) ==
    IF n = 0 THEN {<<>>}
    ELSE LET shorter == SeqsUpTo(S, n - 1)
         IN  shorter \cup {Append(s, x) : s \in {t \in shorter : Len(t) = n - 1}, x \in S}

Range(s) == {s[i] : i \in 1..Len(s)}

-----------------------------------------------------------------------------
(***************************************************************************)
(* Job metrics (package metrics, src/unnamed/part_010)                     *)
(***************************************************************************)

\* Seeded fault for C9_AdjustmentOverride: the last adjustment invoice of the
\* slice instead of the first.
LastAdjustment(invoices) ==
    IF \E i \in 1..Len(invoices) : invoices[i].IsAdjustment
    THEN CHOOSE i \in 1..Len(invoices) :
            /\ invoices[i].IsAdjustment
            /\ \A k \in (i + 1)..Len(invoices) : ~invoices[k].IsAdjustment
    ELSE 0

\* Index of the first adjustment invoice of the slice, 0 when there is none
\* (the loop of lines 76-82, which breaks at the first hit).
FirstAdjustment(invoices) ==
    IF \E i \in 1..Len(invoices) : invoices[i].IsAdjustment
    THEN CHOOSE i \in 1..Len(invoices) :
            /\ invoices[i].IsAdjustment
            /\ \A k \in 1..(i - 1) : ~invoices[k].IsAdjustment
    ELSE 0

\* Seeded fault for C8_MarginWithoutAdjustment: only the first invoice's
\* cost is taken.
FirstInvoiceCost(invoices) ==
    IF Len(invoices) = 0 \/ invoices[1].IsAdjustment THEN 0 ELSE invoices[1].CostsTotal

\* The else-branch of lines 89-97: costs of the non-adjustment invoices, added up.
NonAdjustmentCosts(invoices) ==
    SeqSum([i \in 1..Len(invoices) |->
               IF invoices[i].IsAdjustment THEN 0 ELSE invoices[i].CostsTotal])

\* Lines 102-109: the margin is set only when the revenue is greater than zero.
GrossMarginPct(revenue, grossProfit) ==
    IF revenue > 0
    THEN SomeDec(DecMul(DecDiv(grossProfit, revenue), Dec(100)))
    ELSE NullDec

calculateSingleJobMetric(job, invoices) ==
    LET adj        == FirstAdjustment(invoices)
        totalCosts == IF adj # 0 THEN invoices[adj].CostsTotal
                      ELSE NonAdjustmentCosts(invoices)
        profit     == job.JobsSubtotal - totalCosts
    IN  [JobID          |-> job.ID,
         Revenue        |-> job.JobsSubtotal,
         TotalCosts     |-> totalCosts,
         GrossProfit    |-> profit,
         GrossMarginPct |-> GrossMarginPct(job.JobsSubtotal, profit),
         InvoiceCount   |-> Len(invoices),
         HasAdjustment  |-> adj # 0]

\* invoicesByJob[id]: the invoices of the job, in the order of the input slice.
InvoicesByJob(invoices, id) == SelectSeq(invoices, LAMBDA inv : inv.JobID = id)

\* Seeded fault for C10_NullMargin: the zero-revenue test left out.
QualifiesWithZeroRevenue(job, invoices) ==
    /\ job.Status = "Completed"
    /\ Len(SelectSeq(invoices, LAMBDA inv : inv.JobID = job.ID)) # 0

\* Lines 46-58: which jobs get a metric.
Qualifies(job, invoices) ==
    /\ job.Status = "Completed"
    /\ job.JobsSubtotal # 0
    /\ Len(InvoicesByJob(invoices, job.ID)) # 0

RECURSIVE CalculateJobMetrics(_, _)
CalculateJobMetrics(jobs, invoices) ==
    IF Len(jobs) = 0 THEN <<>>
    ELSE LET job  == Head(jobs)
             rest == CalculateJobMetrics(Tail(jobs), invoices)
         IN  IF Qualifies(job, invoices)
             THEN <<calculateSingleJobMetric(job, InvoicesByJob(invoices, job.ID))>> \o rest
             ELSE rest


-----------------------------------------------------------------------------
(***************************************************************************)
(* The database: schema and SQL statements                                 *)
(***************************************************************************)

NullTime == [Valid |-> FALSE, Time |-> 0]
SomeTime(d) == [Valid |-> TRUE, Time |-> d]
NullString == [Valid |-> FALSE, String |-> ""]
SomeString(s) == [Valid |-> TRUE, String |-> s]

\* The tables of the migrations, empty.
EmptyTables ==
    [import_batches     |-> {},
     customers          |-> {},
     jobs               |-> {},
     invoices           |-> {},
     technicians        |-> {},
     job_technicians    |-> {},
     job_metrics        |-> {},
     technician_metrics |-> {}]

\* The BIGSERIAL sequences (last value handed out).
InitSequences == [import_batches |-> 0, technicians |-> 0]

\* CHECK (status IN (...)) of table jobs.
JobStatuses == {"Scheduled", "In Progress", "On Hold", "Canceled", "Completed"}

\* The number of decimal digits of the natural number n (none for 0).
RECURSIVE Digits(_)
Digits(n) == IF n = 0 THEN 0 ELSE 1 + Digits(n \div 10)

\* A NUMERIC(p, s) column rejects a value whose integer part needs more than
\* p - s digits ("numeric field overflow").
NumericOverflow(p, s, d) == Digits(Abs(d) \div One) > p - s

\* Seeded fault for C21_CustomerRollingDates: SET first_job_date =
\* EXCLUDED.first_job_date, the new value whatever the stored one.
ExcludedValue(a, b) == b

\* PostgreSQL's LEAST / GREATEST over two nullable dates: NULLs are ignored.
Least(a, b) ==
    IF ~a.Valid THEN b ELSE IF ~b.Valid THEN a
    ELSE IF a.Time <= b.Time THEN a ELSE b

Greatest(a, b) ==
    IF ~a.Valid THEN b ELSE IF ~b.Valid THEN a
    ELSE IF a.Time >= b.Time THEN a ELSE b

\* Seeded fault for C1_IdempotentDedup: the two hashes compared with the
\* wrong columns.
GetImportBatchByHashesSwapped(t, jobsHash, invoicesHash) ==
    {b \in t.import_batches :
        b.job_report_hash = invoicesHash /\ b.invoice_report_hash = jobsHash}

\* SELECT * FROM import_batches WHERE job_report_hash = $1 AND invoice_report_hash = $2
GetImportBatchByHashes(t, jobsHash, invoicesHash) ==
    {b \in t.import_batches :
        b.job_report_hash = jobsHash /\ b.invoice_report_hash = invoicesHash}

\* Seeded fault for C19_RacingImports: import_batches without the unique
\* index idx_import_batches_hashes, where the insert always succeeds.
CreateImportBatchWithoutIndex(t, seq, p) ==
    LET id == seq.import_batches + 1
    IN  [err |-> FALSE,
         seq |-> [seq EXCEPT !.import_batches = id],
         t   |-> [t EXCEPT !.import_batches = @ \cup
                    {[id                  |-> id,
                      job_report_hash     |-> p.JobReportHash,
                      invoice_report_hash |-> p.InvoiceReportHash,
                      row_count_jobs      |-> p.RowCountJobs,
                      row_count_invoices  |-> p.RowCountInvoices,
                      status              |-> p.Status,
                      error_message       |-> NullString]}],
         row |-> [id                  |-> id,
                  job_report_hash     |-> p.JobReportHash,
                  invoice_report_hash |-> p.InvoiceReportHash,
                  row_count_jobs      |-> p.RowCountJobs,
                  row_count_invoices  |-> p.RowCountInvoices,
                  status              |-> p.Status,
                  error_message       |-> NullString]]

\* INSERT INTO import_batches ... RETURNING *; the unique index
\* idx_import_batches_hashes rejects a second row for a hash pair.  The id
\* comes from the sequence, which advances whether or not the insert succeeds.
CreateImportBatch(t, seq, p) ==
    LET id  == seq.import_batches + 1
        row == [id                  |-> id,
                job_report_hash     |-> p.JobReportHash,
                invoice_report_hash |-> p.InvoiceReportHash,
                row_count_jobs      |-> p.RowCountJobs,
                row_count_invoices  |-> p.RowCountInvoices,
                status              |-> p.Status,
                error_message       |-> NullString]
        dup == GetImportBatchByHashes(t, p.JobReportHash, p.InvoiceReportHash) # {}
    IN  [err |-> dup,
         seq |-> [seq EXCEPT !.import_batches = id],
         t   |-> IF dup THEN t
                 ELSE [t EXCEPT !.import_batches = @ \cup {row}],
         row |-> row]

\* UPDATE import_batches SET status = $2, error_message = $3 WHERE id = $1
UpdateImportBatchStatus(t, id, status, msg) ==
    [t EXCEPT !.import_batches =
        {IF b.id = id THEN [b EXCEPT !.status = status, !.error_message = msg] ELSE b
           : b \in @}]

\* INSERT INTO customers ... ON CONFLICT (id) DO UPDATE SET ...
UpsertCustomer(t, p) ==
    LET old == {c \in t.customers : c.id = p.ID}
        row == IF old = {}
               THEN [id             |-> p.ID,
                     customer_name  |-> p.CustomerName,
                     first_job_date |-> p.FirstJobDate,
                     last_job_date  |-> p.LastJobDate]
               ELSE LET o == CHOOSE c \in old : TRUE
                    IN  [id             |-> p.ID,
                         customer_name  |-> p.CustomerName,
                         first_job_date |-> Least(o.first_job_date, p.FirstJobDate),
                         last_job_date  |-> Greatest(o.last_job_date, p.LastJobDate)]
    IN  [t EXCEPT !.customers = (@ \ old) \cup {row}]

\* Seeded fault for C20_JobImmutability: a jobs table without its primary
\* key, where only the status CHECK rejects an insert.
CreateJobFailsOnStatusOnly(t, p) == p.Status \notin JobStatuses

\* INSERT INTO jobs ... : the primary key rejects a job id that is already
\* stored (by this or an earlier batch), the CHECK an unknown status.
CreateJobFails(t, p) ==
    \/ \E j \in t.jobs : j.id = p.ID
    \/ p.Status \notin JobStatuses

CreateJob(t, p) ==
    [t EXCEPT !.jobs = @ \cup
        {[id                      |-> p.ID,
          customer_id             |-> p.CustomerID,
          import_batch_id         |-> p.ImportBatchID,
          status                  |-> p.Status,
          job_completion_date     |-> p.JobCompletionDate,
          assigned_technician     |-> p.AssignedTechnician,
          sold_by_technician      |-> p.SoldByTechnician,
          primary_technician      |-> p.PrimaryTechnician,
          jobs_subtotal           |-> p.JobsSubtotal,
          estimate_sales_subtotal |-> p.EstimateSalesSubtotal,
          total_hours_worked      |-> p.TotalHoursWorked,
          estimate_count          |-> p.EstimateCount]}]

\* INSERT INTO invoices ... : the primary key rejects a stored invoice id.
CreateInvoiceFails(t, p) == \E i \in t.invoices : i.id = p.ID

CreateInvoice(t, p) ==
    [t EXCEPT !.invoices = @ \cup
        {[id              |-> p.ID,
          job_id          |-> p.JobID,
          import_batch_id |-> p.ImportBatchID,
          costs_total     |-> p.CostsTotal,
          is_adjustment   |-> p.IsAdjustment]}]

\* INSERT INTO technicians ... ON CONFLICT (name) DO UPDATE SET
\*   first_seen_date = LEAST(...), last_seen_date = GREATEST(...) RETURNING *
\* The id default draws from the sequence before the conflict is seen.
UpsertTechnician(t, seq, p) ==
    LET id  == seq.technicians + 1
        old == {x \in t.technicians : x.name = p.Name}
        row == IF old = {}
               THEN [id              |-> id,
                     name            |-> p.Name,
                     first_seen_date |-> p.FirstSeenDate,
                     last_seen_date  |-> p.LastSeenDate]
               ELSE LET o == CHOOSE x \in old : TRUE
                    IN  [o EXCEPT
                           !.first_seen_date = Least(o.first_seen_date, p.FirstSeenDate),
                           !.last_seen_date  = Greatest(o.last_seen_date, p.LastSeenDate)]
    IN  [t   |-> [t EXCEPT !.technicians = (@ \ old) \cup {row}],
         seq |-> [seq EXCEPT !.technicians = id],
         row |-> row]

\* INSERT INTO job_technicians ... ON CONFLICT (job_id, technician_id, role) DO NOTHING
CreateJobTechnician(t, p) ==
    [t EXCEPT !.job_technicians = @ \cup
        {[job_id |-> p.JobID, technician_id |-> p.TechnicianID, role |-> p.Role]}]

\* Seeded fault for C17_AdvisoryValidator: the query without its batch filter.
GetJobsWithoutInvoicesOfAnyBatch(t, batchID) ==
    {j.id : j \in {x \in t.jobs : ~\E i \in t.invoices : i.job_id = x.id}}

\* SELECT j.id ... FROM jobs j LEFT JOIN invoices i ON j.id = i.job_id
\* WHERE i.id IS NULL AND j.import_batch_id = $1
GetJobsWithoutInvoices(t, batchID) ==
    {j.id : j \in {x \in t.jobs :
                     /\ x.import_batch_id = batchID
                     /\ ~\E i \in t.invoices : i.job_id = x.id}}

-----------------------------------------------------------------------------
(***************************************************************************)
(* Package importer: helpers, errors, faults                               *)
(***************************************************************************)

decimalOrZero(d) == IF d.Valid THEN d.Decimal ELSE 0

\* An error value: the wrapping message of ImportFiles ("" is nil), the id
\* and the CSV row the inner message names (row 0: none).
NoErr == [msg |-> "", cause |-> "", id |-> "", row |-> 0]
Err(msg) == [msg |-> msg, cause |-> "", id |-> "", row |-> 0]
ErrAt(msg, id, row) == [msg |-> msg, cause |-> "", id |-> id, row |-> row]
\* fmt.Errorf("<context>: %w", err)
Wrap(context, err) ==
    [err EXCEPT !.msg = context,
                !.cause = IF err.cause = "" THEN err.msg ELSE err.cause]

\* A failure of the environment during the transaction: the first statement
\* of the named step returns an error.  kind "server": the server rejected
\* the statement (or the connection broke), so the transaction is aborted;
\* kind "client": the error arose after the statement ran, while reading its
\* rows (rows.Scan), so the transaction is still usable.  Rows are read by
\* the validation query and by calculateAndSaveTechnicianMetrics.
NoFault == [step |-> "none", kind |-> "server"]
Faults ==
    {NoFault}
    \cup [step : {"customers", "jobs", "technicians", "invoices",
                  "validate", "job_metrics", "tech_metrics"},
          kind : {"server"}]
    \cup [step : {"validate", "tech_metrics"}, kind : {"client"}]

-----------------------------------------------------------------------------
(***************************************************************************)
(* importCustomers (src/unnamed/part_008 lines 582-639)                    *)
(***************************************************************************)

\* customerMap[cid] after the first n rows (lines 585-599): the index of the
\* row kept for the customer, 0 when the customer has not been seen.  A later
\* row replaces the kept one only when both completion dates are set and the
\* later row's is after the kept one's.
RECURSIVE CustomerMapEntry(_, _, _)
CustomerMapEntry(jobs, cid, n) ==
    IF n = 0 THEN 0
    ELSE LET prev == CustomerMapEntry(jobs, cid, n - 1)
             job  == jobs[n]
         IN  IF job.CustomerID # cid THEN prev
             ELSE IF prev = 0 THEN n
             ELSE IF /\ job.JobCompletionDate.Valid
                     /\ jobs[prev].JobCompletionDate.Valid
                     /\ job.JobCompletionDate.Time > jobs[prev].JobCompletionDate.Time
                  THEN n
                  ELSE prev

\* Lines 605-615: the earliest / latest completion date of the customer's rows.
CustomerDates(jobs, cid) ==
    {jobs[i].JobCompletionDate.Time :
        i \in {k \in 1..Len(jobs) : jobs[k].CustomerID = cid
                                    /\ jobs[k].JobCompletionDate.Valid}}

FirstJobDate(jobs, cid) ==
    LET ds == CustomerDates(jobs, cid)
    IN  IF ds = {} THEN NullTime
        ELSE SomeTime(CHOOSE d \in ds : \A e \in ds : d <= e)

LastJobDate(jobs, cid) ==
    LET ds == CustomerDates(jobs, cid)
    IN  IF ds = {} THEN NullTime
        ELSE SomeTime(CHOOSE d \in ds : \A e \in ds : d >= e)

UpsertCustomerParams(jobs, cid) ==
    [ID           |-> cid,
     CustomerName |-> jobs[CustomerMapEntry(jobs, cid, Len(jobs))].CustomerName,
     FirstJobDate |-> FirstJobDate(jobs, cid),
     LastJobDate  |-> LastJobDate(jobs, cid)]

\* Seeded fault for C29_ReferentialIntegrity: only the customers that have a
\* completed job in the report are upserted.
RECURSIVE UpsertCustomersOfCompletedJobs(_, _, _)
UpsertCustomersOfCompletedJobs(t, jobs, cids) ==
    IF cids = {} THEN t
    ELSE LET cid == CHOOSE c \in cids : TRUE
         IN  UpsertCustomersOfCompletedJobs(
                 IF \E i \in 1..Len(jobs) :
                       jobs[i].CustomerID = cid /\ jobs[i].Status = "Completed"
                 THEN UpsertCustomer(t, UpsertCustomerParams(jobs, cid))
                 ELSE t,
                 jobs, cids \ {cid})

\* The upserts of lines 603-636, one per customer id (the ids differ, so the
\* map's iteration order does not matter).
RECURSIVE UpsertCustomers(_, _, _)
UpsertCustomers(t, jobs, cids) ==
    IF cids = {} THEN t
    ELSE LET cid == CHOOSE c \in cids : TRUE
         IN  UpsertCustomers(UpsertCustomer(t, UpsertCustomerParams(jobs, cid)),
                             jobs, cids \ {cid})

importCustomers(t, jobs, fault) ==
    LET cids == {jobs[i].CustomerID : i \in 1..Len(jobs)}
    IN  IF fault.step = "customers" /\ cids # {}
        THEN [err |-> Err("failed to upsert customer"), t |-> t, count |-> 0]
        ELSE [err   |-> NoErr,
              t     |-> UpsertCustomers(t, jobs, cids),
              count |-> Cardinality(cids)]

-----------------------------------------------------------------------------
(***************************************************************************)
(* importJobs (src/unnamed/part_008 lines 642-684)                         *)
(***************************************************************************)

CreateJobParams(job, batchID) ==
    [ID                    |-> job.JobID,
     CustomerID            |-> job.CustomerID,
     ImportBatchID         |-> batchID,
     Status                |-> job.Status,
     JobCompletionDate     |-> job.JobCompletionDate,
     AssignedTechnician    |-> job.AssignedTechnicians,
     SoldByTechnician      |-> job.SoldBy,
     PrimaryTechnician     |-> job.PrimaryTechnician,
     JobsSubtotal          |-> decimalOrZero(job.JobsSubtotal),
     EstimateSalesSubtotal |-> decimalOrZero(job.EstimateSalesSubtotal),
     TotalHoursWorked      |-> decimalOrZero(job.TotalHoursWorked),
     EstimateCount         |-> job.EstimateCount]

\* Seeded fault for C30_ReappearingJobID: a loop that skips the rows the
\* insert rejects, as CreateJob would with ON CONFLICT DO NOTHING.
RECURSIVE importJobsFromSkippingRejected(_, _, _, _)
importJobsFromSkippingRejected(r, jobs, batchID, idx) ==
    IF idx > Len(jobs) THEN r
    ELSE LET p == CreateJobParams(jobs[idx], batchID)
         IN  IF CreateJobFails(r.t, p)
             THEN importJobsFromSkippingRejected(r, jobs, batchID, idx + 1)
             ELSE importJobsFromSkippingRejected(
                     [r EXCEPT !.t = CreateJob(r.t, p),
                               !.validJobIDs = @ \cup {p.ID}],
                     jobs, batchID, idx + 1)

\* The loop of lines 646-681 from row idx on: r is [err, t, validJobIDs].
RECURSIVE importJobsFrom(_, _, _, _)
importJobsFrom(r, jobs, batchID, idx) ==
    IF idx > Len(jobs) THEN r
    ELSE LET p == CreateJobParams(jobs[idx], batchID)
         IN  IF CreateJobFails(r.t, p)
             THEN [r EXCEPT !.err = ErrAt("failed to insert job", p.ID, idx + 1),
                            !.validJobIDs = {}]
             ELSE importJobsFrom([r EXCEPT !.t = CreateJob(r.t, p),
                                           !.validJobIDs = @ \cup {p.ID}],
                                 jobs, batchID, idx + 1)

importJobs(t, jobs, batchID, fault) ==
    IF fault.step = "jobs" /\ Len(jobs) > 0
    THEN [err |-> ErrAt("failed to insert job", jobs[1].JobID, 2),
          t |-> t, validJobIDs |-> {}]
    ELSE importJobsFrom([err |-> NoErr, t |-> t, validJobIDs |-> {}], jobs, batchID, 1)

-----------------------------------------------------------------------------
(***************************************************************************)
(* ImportTechnicians, upsertTechnician, splitTechnicianNames               *)
(* (src/unnamed/part_009 lines 15-125)                                     *)
(***************************************************************************)

\* strings.TrimSpace on one comma-separated part of the assigned-technicians
\* field: a part is [name, padded], the name with or without blanks around it.
TrimSpace(part) == part.name

\* Seeded fault for C22_TechnicianAttribution: the assigned-technicians cell
\* taken as one name, its first.
firstTechnicianName(parts) ==
    IF Len(parts) = 0 \/ TrimSpace(Head(parts)) = "" THEN <<>>
    ELSE <<TrimSpace(Head(parts))>>

\* Lines 115-125: the trimmed, non-empty names, in order.
RECURSIVE splitTechnicianNames(_)
splitTechnicianNames(parts) ==
    IF Len(parts) = 0 THEN <<>>
    ELSE LET name == TrimSpace(Head(parts))
             rest == splitTechnicianNames(Tail(parts))
         IN  IF name # "" THEN <<name>> \o rest ELSE rest

\* Seeded fault for C24_TechnicianIdentity: the cache is filled but never
\* consulted, so every occurrence of a name runs the upsert.
upsertTechnicianUncached(r, name, jobDate) ==
    IF name = ""
    THEN [r EXCEPT !.err = Err("technician name cannot be empty"), !.id = 0]
    ELSE LET u == UpsertTechnician(r.t, r.seq,
                     [Name |-> name, FirstSeenDate |-> jobDate, LastSeenDate |-> jobDate])
         IN  [r EXCEPT !.t = u.t, !.seq = u.seq,
                       !.cache = (name :> u.row.id) @@ r.cache,
                       !.id = u.row.id]

\* Lines 83-112.  r is [err, t, seq, cache, id]; cache maps a name to the id
\* the upsert returned for it earlier in this run.  The names that reach it
\* are trimmed already (by the parser or by splitTechnicianNames), so its own
\* TrimSpace changes nothing.
upsertTechnician(r, name, jobDate) ==
    IF name = ""
    THEN [r EXCEPT !.err = Err("technician name cannot be empty"), !.id = 0]
    ELSE IF name \in DOMAIN r.cache
    THEN [r EXCEPT !.id = r.cache[name]]
    ELSE LET u == UpsertTechnician(r.t, r.seq,
                     [Name |-> name, FirstSeenDate |-> jobDate, LastSeenDate |-> jobDate])
         IN  [r EXCEPT !.t = u.t, !.seq = u.seq,
                       !.cache = (name :> u.row.id) @@ r.cache,
                       !.id = u.row.id]

\* The (name, role) pairs one job row gives rise to, in the order of lines 27-76.
JobRoles(job) ==
    (IF job.SoldBy.Valid /\ job.SoldBy.String # ""
     THEN <<[name |-> job.SoldBy.String, role |-> "sold_by"]>> ELSE <<>>)
    \o
    (IF job.PrimaryTechnician.Valid /\ job.PrimaryTechnician.String # ""
     THEN <<[name |-> job.PrimaryTechnician.String, role |-> "primary"]>> ELSE <<>>)
    \o
    (LET names == splitTechnicianNames(job.AssignedTechnicians)
     IN  [i \in 1..Len(names) |-> [name |-> names[i], role |-> "assigned"]])

\* The error text of lines 30, 45 and 62.
UpsertError(role) ==
    IF role = "sold_by" THEN "failed to upsert sold_by technician"
    ELSE IF role = "primary" THEN "failed to upsert primary technician"
    ELSE "failed to upsert assigned technician"

\* One upsertTechnician + CreateJobTechnician pair for each role of the job.
RECURSIVE ImportJobRoles(_, _, _)
ImportJobRoles(r, job, roles) ==
    IF Len(roles) = 0 \/ r.err # NoErr THEN r
    ELSE LET u == upsertTechnician(r, Head(roles).name, job.JobCompletionDate)
         IN  IF u.err # NoErr
             THEN [u EXCEPT !.err = Wrap(UpsertError(Head(roles).role), u.err)]
             ELSE ImportJobRoles(
                     [u EXCEPT !.t = CreateJobTechnician(u.t,
                                        [JobID        |-> job.JobID,
                                         TechnicianID |-> u.id,
                                         Role         |-> Head(roles).role])],
                     job, Tail(roles))

RECURSIVE ImportTechniciansFrom(_, _, _)
ImportTechniciansFrom(r, jobs, idx) ==
    IF idx > Len(jobs) \/ r.err # NoErr THEN r
    ELSE ImportTechniciansFrom(ImportJobRoles(r, jobs[idx], JobRoles(jobs[idx])),
                               jobs, idx + 1)

ImportTechnicians(t, seq, jobs, fault) ==
    LET r0 == [err |-> NoErr, t |-> t, seq |-> seq, cache |-> <<>>, id |-> 0]
        first == CHOOSE i \in 1..Len(jobs) :
                    /\ Len(JobRoles(jobs[i])) > 0
                    /\ \A k \in 1..(i - 1) : Len(JobRoles(jobs[k])) = 0
    IN  IF fault.step = "technicians"
           /\ \E i \in 1..Len(jobs) : Len(JobRoles(jobs[i])) > 0
        THEN [err |-> Err(UpsertError(JobRoles(jobs[first])[1].role)),
              t |-> t, seq |-> seq, count |-> 0]
        ELSE LET r == ImportTechniciansFrom(r0, jobs, 1)
             IN  [err   |-> r.err, t |-> r.t, seq |-> r.seq,
                  count |-> IF r.err = NoErr THEN Cardinality(DOMAIN r.cache) ELSE 0]

-----------------------------------------------------------------------------
(***************************************************************************)
(* importInvoices (src/unnamed/part_008 lines 688-739)                     *)
(***************************************************************************)

CreateInvoiceParams(invoice, batchID) ==
    [ID            |-> invoice.InvoiceID,
     JobID         |-> invoice.JobID,
     ImportBatchID |-> batchID,
     CostsTotal    |-> decimalOrZero(invoice.CostsTotal),
     IsAdjustment  |-> invoice.IsAdjustment]

\* Seeded fault for C7_OrphanInvoices: an invoice is kept when its job is
\* stored at all, whichever batch stored it.
RECURSIVE importInvoicesFromAnyBatch(_, _, _, _, _)
importInvoicesFromAnyBatch(r, invoices, batchID, validJobIDs, idx) ==
    IF idx > Len(invoices) THEN r
    ELSE LET invoice == invoices[idx]
             p       == CreateInvoiceParams(invoice, batchID)
         IN  IF ~\E j \in r.t.jobs : j.id = invoice.JobID
             THEN importInvoicesFromAnyBatch(
                     [r EXCEPT !.skipped = @ + 1,
                               !.missingJobIDs = @ \cup {invoice.JobID}],
                     invoices, batchID, validJobIDs, idx + 1)
             ELSE IF CreateInvoiceFails(r.t, p)
             THEN [r EXCEPT !.err = ErrAt("failed to insert invoice", p.ID, idx + 1)]
             ELSE importInvoicesFromAnyBatch(
                     [r EXCEPT !.t = CreateInvoice(r.t, p), !.imported = @ + 1],
                     invoices, batchID, validJobIDs, idx + 1)

\* The loop of lines 694-736 from row idx on; r is
\* [err, t, imported, skipped, missingJobIDs].
RECURSIVE importInvoicesFrom(_, _, _, _, _)
importInvoicesFrom(r, invoices, batchID, validJobIDs, idx) ==
    IF idx > Len(invoices) THEN r
    ELSE LET invoice == invoices[idx]
             p       == CreateInvoiceParams(invoice, batchID)
         IN  IF invoice.JobID \notin validJobIDs
             THEN importInvoicesFrom(
                     [r EXCEPT !.skipped = @ + 1,
                               !.missingJobIDs = @ \cup {invoice.JobID}],
                     invoices, batchID, validJobIDs, idx + 1)
             ELSE IF CreateInvoiceFails(r.t, p)
             THEN [r EXCEPT !.err = ErrAt("failed to insert invoice", p.ID, idx + 1)]
             ELSE importInvoicesFrom(
                     [r EXCEPT !.t = CreateInvoice(r.t, p), !.imported = @ + 1],
                     invoices, batchID, validJobIDs, idx + 1)

importInvoices(t, invoices, batchID, validJobIDs, fault) ==
    LET r0 == [err |-> NoErr, t |-> t, imported |-> 0, skipped |-> 0,
               missingJobIDs |-> {}]
    IN  IF fault.step = "invoices"
           /\ \E i \in 1..Len(invoices) : invoices[i].JobID \in validJobIDs
        THEN [r0 EXCEPT !.err = Err("failed to insert invoice")]
        ELSE importInvoicesFrom(r0, invoices, batchID, validJobIDs, 1)

-----------------------------------------------------------------------------
(***************************************************************************)
(* ValidateImport (src/unnamed/part_009 lines 144-167)                     *)
(***************************************************************************)

\* A warning text: its format and the numbers printed into it.
Warning(kind, n, m) == [kind |-> kind, n |-> n, m |-> m]

ValidateImport(t, batchID, fault) ==
    LET without == GetJobsWithoutInvoices(t, batchID)
    IN  IF fault.step = "validate" /\ fault.kind = "server"
        THEN [err |-> Err("failed to check jobs without invoices"),
              JobsWithoutInvoices |-> {}, Warnings |-> <<>>, aborted |-> TRUE]
        ELSE IF fault.step = "validate" /\ fault.kind = "client" /\ without # {}
        THEN [err |-> Err("failed to check jobs without invoices"),
              JobsWithoutInvoices |-> {}, Warnings |-> <<>>, aborted |-> FALSE]
        ELSE [err |-> NoErr, aborted |-> FALSE,
              JobsWithoutInvoices |-> without,
              Warnings |-> IF Cardinality(without) > 0
                           THEN <<Warning("Found %d jobs without invoices",
                                          Cardinality(without), 0)>>
                           ELSE <<>>]

-----------------------------------------------------------------------------
(***************************************************************************)
(* calculateAndSaveJobMetrics (src/unnamed/part_008 lines 413-450),        *)
(* SaveJobMetrics (src/unnamed/part_010 lines 115-156)                     *)
(***************************************************************************)

\* Seeded fault for C11_JobMetricQualification: a plain INSERT, without the
\* ON CONFLICT (job_id) DO UPDATE clause and without the primary key.
InsertJobMetric(t, m) ==
    [t EXCEPT !.job_metrics = @ \cup
        {[job_id           |-> m.JobID,
          revenue          |-> m.Revenue,
          total_costs      |-> m.TotalCosts,
          gross_profit     |-> m.GrossProfit,
          gross_margin_pct |-> m.GrossMarginPct,
          invoice_count    |-> m.InvoiceCount,
          has_adjustment   |-> m.HasAdjustment]}]

\* INSERT INTO job_metrics ... ON CONFLICT (job_id) DO UPDATE SET ...
UpsertJobMetric(t, m) ==
    [t EXCEPT !.job_metrics =
        {x \in @ : x.job_id # m.JobID} \cup
        {[job_id           |-> m.JobID,
          revenue          |-> m.Revenue,
          total_costs      |-> m.TotalCosts,
          gross_profit     |-> m.GrossProfit,
          gross_margin_pct |-> m.GrossMarginPct,
          invoice_count    |-> m.InvoiceCount,
          has_adjustment   |-> m.HasAdjustment]}]

\* revenue, total_costs and gross_profit are NUMERIC(12, 2) columns.
JobMetricOverflows(m) ==
    \/ NumericOverflow(12, 2, m.Revenue)
    \/ NumericOverflow(12, 2, m.TotalCosts)
    \/ NumericOverflow(12, 2, m.GrossProfit)

RECURSIVE SaveJobMetrics(_, _)
SaveJobMetrics(t, metrics) ==
    IF Len(metrics) = 0 THEN [err |-> NoErr, t |-> t]
    ELSE IF JobMetricOverflows(Head(metrics))
    THEN [err |-> Err("numeric field overflow"), t |-> t]
    ELSE SaveJobMetrics(UpsertJobMetric(t, Head(metrics)), Tail(metrics))

\* Lines 415-425 and 427-438: the rows handed to the calculator.
JobDataOf(jobs, validJobIDs) ==
    LET kept == SelectSeq(jobs, LAMBDA j : j.JobID \in validJobIDs)
    IN  [i \in 1..Len(kept) |->
            [ID           |-> kept[i].JobID,
             Status       |-> kept[i].Status,
             JobsSubtotal |-> decimalOrZero(kept[i].JobsSubtotal)]]

InvoiceDataOf(invoices, validJobIDs) ==
    LET kept == SelectSeq(invoices, LAMBDA inv : inv.JobID \in validJobIDs)
    IN  [i \in 1..Len(kept) |->
            [ID           |-> kept[i].InvoiceID,
             JobID        |-> kept[i].JobID,
             CostsTotal   |-> decimalOrZero(kept[i].CostsTotal),
             IsAdjustment |-> kept[i].IsAdjustment]]

calculateAndSaveJobMetrics(t, jobs, invoices, validJobIDs, fault) ==
    LET jobMetrics == CalculateJobMetrics(JobDataOf(jobs, validJobIDs),
                                          InvoiceDataOf(invoices, validJobIDs))
        saved      == SaveJobMetrics(t, jobMetrics)
    IN  IF fault.step = "job_metrics"
        THEN [err |-> Err("failed to prepare statement"), t |-> t, count |-> 0]
        ELSE IF saved.err # NoErr
        THEN [err |-> saved.err, t |-> saved.t, count |-> 0]
        ELSE [err |-> NoErr, t |-> saved.t, count |-> Len(jobMetrics)]

-----------------------------------------------------------------------------
(***************************************************************************)
(* CalculateTechnicianMetrics, calculateTechnicianAverages,                *)
(* SaveTechnicianMetrics (src/internal/metrics/technician_metrics.go)      *)
(***************************************************************************)

\* The sum of f[x] over the finite set S.
RECURSIVE SumOver(_, _)
SumOver(S, f) ==
    IF S = {} THEN 0
    ELSE LET x == CHOOSE y \in S : TRUE
         IN  f[x] + SumOver(S \ {x}, f)

\* jobsByID / jobMetricsByID (lines 63-71): a later entry replaces an earlier
\* one with the same id.
LastWithID(rows, id) ==
    rows[CHOOSE i \in 1..Len(rows) :
            /\ rows[i].ID = id
            /\ \A k \in (i + 1)..Len(rows) : rows[k].ID # id]

\* Seeded fault for C27_EfficiencyAverages: the average hours per job is
\* present whenever there is an opportunity, also with no hours worked.
calculateTechnicianAveragesWithZeroHours(m) ==
    [m EXCEPT
        !.ConversionRate =
            IF m.TotalJobs > 0
            THEN SomeDec(DecMul(DecDiv(Dec(m.SoldJobs), Dec(m.TotalJobs)), Dec(100)))
            ELSE NullDec,
        !.AvgSale =
            IF m.SoldJobs > 0 /\ m.TotalSales > 0
            THEN SomeDec(DecDiv(m.TotalSales, Dec(m.SoldJobs)))
            ELSE NullDec,
        !.AvgHoursPerJob =
            IF m.TotalJobs > 0
            THEN SomeDec(DecDiv(m.TotalHoursWorked, Dec(m.TotalJobs)))
            ELSE NullDec,
        !.AvgEstimatesPerJob =
            IF m.TotalJobs > 0
            THEN SomeDec(DecDiv(Dec(m.TotalEstimates), Dec(m.TotalJobs)))
            ELSE NullDec,
        !.AvgGrossProfit =
            IF m.SoldJobs > 0 /\ m.TotalGrossProfit.Valid
            THEN SomeDec(DecDiv(m.TotalGrossProfit.Decimal, Dec(m.SoldJobs)))
            ELSE NullDec,
        !.AvgMarginPct =
            IF m.SoldJobs > 0 /\ m.TotalGrossProfit.Valid /\ m.TotalSales > 0
            THEN SomeDec(DecMul(DecDiv(m.TotalGrossProfit.Decimal, m.TotalSales), Dec(100)))
            ELSE NullDec]

\* Lines 169-219.
calculateTechnicianAverages(m) ==
    [m EXCEPT
        !.ConversionRate =
            IF m.TotalJobs > 0
            THEN SomeDec(DecMul(DecDiv(Dec(m.SoldJobs), Dec(m.TotalJobs)), Dec(100)))
            ELSE NullDec,
        !.AvgSale =
            IF m.SoldJobs > 0 /\ m.TotalSales > 0
            THEN SomeDec(DecDiv(m.TotalSales, Dec(m.SoldJobs)))
            ELSE NullDec,
        !.AvgHoursPerJob =
            IF m.TotalJobs > 0 /\ m.TotalHoursWorked # 0
            THEN SomeDec(DecDiv(m.TotalHoursWorked, Dec(m.TotalJobs)))
            ELSE NullDec,
        !.AvgEstimatesPerJob =
            IF m.TotalJobs > 0
            THEN SomeDec(DecDiv(Dec(m.TotalEstimates), Dec(m.TotalJobs)))
            ELSE NullDec,
        !.AvgGrossProfit =
            IF m.SoldJobs > 0 /\ m.TotalGrossProfit.Valid
            THEN SomeDec(DecDiv(m.TotalGrossProfit.Decimal, Dec(m.SoldJobs)))
            ELSE NullDec,
        !.AvgMarginPct =
            IF m.SoldJobs > 0 /\ m.TotalGrossProfit.Valid /\ m.TotalSales > 0
            THEN SomeDec(DecMul(DecDiv(m.TotalGrossProfit.Decimal, m.TotalSales), Dec(100)))
            ELSE NullDec]

\* Seeded fault for C14_OpportunitiesAndConversions: the status test of
\* lines 112-115 left out.
CountedJobsAnyStatus(techID, role, jobTechnicians, jobs) ==
    {jt.JobID : jt \in {x \in jobTechnicians :
                           /\ x.TechnicianID = techID
                           /\ x.Role = role
                           /\ x.JobID \in {jobs[i].ID : i \in 1..Len(jobs)}}}

\* Lines 106-124: the jobs whose relationship with the technician in the
\* given role is processed: the job is among `jobs` and is completed.
CountedJobs(techID, role, jobTechnicians, jobs) ==
    {jt.JobID : jt \in {x \in jobTechnicians :
                           /\ x.TechnicianID = techID
                           /\ x.Role = role
                           /\ x.JobID \in {jobs[i].ID : i \in 1..Len(jobs)}
                           /\ LastWithID(jobs, x.JobID).Status = "Completed"}}

\* Seeded fault for C13_SalesAttribution: the jobs subtotal is counted
\* whether or not the technician sold the job.
SaleOfAnyPrimary(job, isSoldBy) ==
    IF job.EstimateSalesSubtotal > 0 THEN job.EstimateSalesSubtotal
    ELSE IF job.JobsSubtotal > 0 THEN job.JobsSubtotal
    ELSE 0

\* Lines 147-155: what a job adds to the total sales of its primary
\* technician; isSoldBy: the technician is also sold_by on the job.
SaleOf(job, isSoldBy) ==
    IF job.EstimateSalesSubtotal > 0 THEN job.EstimateSalesSubtotal
    ELSE IF isSoldBy /\ job.JobsSubtotal > 0 THEN job.JobsSubtotal
    ELSE 0

\* Seeded fault for C16_Profitability: a total of zero when no sold job has
\* a metric.
SoldProfitOrZero(sold, jobMetrics) ==
    SomeDec(SumOver(sold \cap {jobMetrics[i].JobID : i \in 1..Len(jobMetrics)},
                    [id \in sold \cap {jobMetrics[i].JobID : i \in 1..Len(jobMetrics)} |->
                        jobMetrics[CHOOSE i \in 1..Len(jobMetrics) :
                            /\ jobMetrics[i].JobID = id
                            /\ \A k \in (i + 1)..Len(jobMetrics) :
                                  jobMetrics[k].JobID # id].GrossProfit]))

\* Lines 129-135: TotalGrossProfit over the sold jobs, valid once a sold job
\* has a job metric.
SoldProfit(sold, jobMetrics) ==
    LET metricIDs == {jobMetrics[i].JobID : i \in 1..Len(jobMetrics)}
        profit  == [id \in sold \cap metricIDs |->
                       jobMetrics[CHOOSE i \in 1..Len(jobMetrics) :
                           /\ jobMetrics[i].JobID = id
                           /\ \A k \in (i + 1)..Len(jobMetrics) :
                                 jobMetrics[k].JobID # id].GrossProfit]
    IN  IF sold \cap metricIDs = {} THEN NullDec
        ELSE SomeDec(SumOver(sold \cap metricIDs, profit))

\* Lines 96-157 for one technician: the totals accumulated over the
\* relationships that name a completed job of `jobs`.
TechnicianTotals(techID, jobTechnicians, jobs, jobMetrics) ==
    LET sold    == CountedJobs(techID, "sold_by", jobTechnicians, jobs)
        primary == CountedJobs(techID, "primary", jobTechnicians, jobs)
        isSoldBy(id) == \E x \in jobTechnicians :
                            x.TechnicianID = techID /\ x.JobID = id /\ x.Role = "sold_by"
        hours   == [id \in primary |-> LastWithID(jobs, id).TotalHoursWorked]
        ests    == [id \in primary |-> LastWithID(jobs, id).EstimateCount]
        sales   == [id \in primary |-> SaleOf(LastWithID(jobs, id), isSoldBy(id))]
    IN  [TechnicianID       |-> techID,
         TotalJobs          |-> Cardinality(primary),
         SoldJobs           |-> Cardinality(sold),
         TotalSales         |-> SumOver(primary, sales),
         AvgSale            |-> NullDec,
         ConversionRate     |-> NullDec,
         TotalHoursWorked   |-> SumOver(primary, hours),
         AvgHoursPerJob     |-> NullDec,
         TotalEstimates     |-> SumOver(primary, ests),
         AvgEstimatesPerJob |-> NullDec,
         TotalGrossProfit   |-> SoldProfit(sold, jobMetrics),
         AvgGrossProfit     |-> NullDec,
         AvgMarginPct       |-> NullDec]

\* Seeded fault for C26_OneMetricRowPerTechnician: metrics only for the
\* technicians that have an association among those handed over.
CalculateTechnicianMetricsOfActive(technicianIDs, jobTechnicians, jobs, jobMetrics) ==
    {calculateTechnicianAverages(
        TechnicianTotals(id, jobTechnicians, jobs, jobMetrics)) :
        id \in {x \in technicianIDs : \E jt \in jobTechnicians : jt.TechnicianID = x}}

\* Lines 55-167: one metric per technician id; the result slice is in map
\* order, so it is a set here.
CalculateTechnicianMetrics(technicianIDs, jobTechnicians, jobs, jobMetrics) ==
    {calculateTechnicianAverages(
        TechnicianTotals(id, jobTechnicians, jobs, jobMetrics)) : id \in technicianIDs}

\* Seeded fault for C15_NullVersusZero: the zero value of an invalid
\* NullDecimal is sent instead of NULL.
zeroForNull(d) == SomeDec(d.Decimal)

\* The value sent for a nullable column (lines 282-287).
nullableDecimal(d) == IF d.Valid THEN SomeDec(d.Decimal) ELSE NullDec

NullableOverflow(p, s, d) == d.Valid /\ NumericOverflow(p, s, d.Decimal)

\* The column types of technician_metrics (migrations/005_technicians.sql).
TechnicianMetricOverflows(m) ==
    \/ NumericOverflow(12, 2, m.TotalSales)
    \/ NullableOverflow(12, 2, m.AvgSale)
    \/ NullableOverflow(5, 2, m.ConversionRate)
    \/ NumericOverflow(10, 2, m.TotalHoursWorked)
    \/ NullableOverflow(8, 2, m.AvgHoursPerJob)
    \/ NullableOverflow(5, 2, m.AvgEstimatesPerJob)
    \/ NullableOverflow(12, 2, m.TotalGrossProfit)
    \/ NullableOverflow(12, 2, m.AvgGrossProfit)
    \/ NullableOverflow(8, 2, m.AvgMarginPct)

TechnicianMetricRow(m) ==
    [technician_id         |-> m.TechnicianID,
     jobs_sold             |-> m.SoldJobs,
     total_sales           |-> m.TotalSales,
     avg_sale              |-> nullableDecimal(m.AvgSale),
     opportunities         |-> m.TotalJobs,
     conversions           |-> m.SoldJobs,
     conversion_rate       |-> nullableDecimal(m.ConversionRate),
     jobs_serviced         |-> m.TotalJobs,
     total_hours_worked    |-> m.TotalHoursWorked,
     avg_hours_per_job     |-> nullableDecimal(m.AvgHoursPerJob),
     total_estimates       |-> m.TotalEstimates,
     jobs_with_estimates   |-> m.TotalEstimates,
     avg_estimates_per_job |-> nullableDecimal(m.AvgEstimatesPerJob),
     total_gross_profit    |-> nullableDecimal(m.TotalGrossProfit),
     avg_gross_profit      |-> nullableDecimal(m.AvgGrossProfit),
     avg_margin_pct        |-> nullableDecimal(m.AvgMarginPct)]

\* Lines 222-280.  One upsert per metric; a value that does not fit its
\* column fails the statement.  What the failed transaction holds is never
\* readable again, so the tables are returned as they were.
SaveTechnicianMetrics(t, metrics) ==
    IF \E m \in metrics : TechnicianMetricOverflows(m)
    THEN [err |-> Err("numeric field overflow"), t |-> t]
    ELSE [err |-> NoErr,
          t   |-> [t EXCEPT !.technician_metrics =
                      {x \in @ : x.technician_id \notin {m.TechnicianID : m \in metrics}}
                      \cup {TechnicianMetricRow(m) : m \in metrics}]]

-----------------------------------------------------------------------------
(***************************************************************************)
(* calculateAndSaveTechnicianMetrics (src/unnamed/part_008 lines 453-548)  *)
(***************************************************************************)

\* The rows of a query result, in some order.
RECURSIVE SetToSeq(_)
SetToSeq(S) ==
    IF S = {} THEN <<>>
    ELSE LET x == CHOOSE y \in S : TRUE
         IN  <<x>> \o SetToSeq(S \ {x})

NullInt == [Valid |-> FALSE, Int |-> 0]

\* Lines 496-510.
JobsForMetrics(jobs) ==
    [i \in 1..Len(jobs) |->
        [ID                    |-> jobs[i].JobID,
         Status                |-> jobs[i].Status,
         JobsSubtotal          |-> decimalOrZero(jobs[i].JobsSubtotal),
         EstimateSalesSubtotal |-> decimalOrZero(jobs[i].EstimateSalesSubtotal),
         TotalHoursWorked      |-> decimalOrZero(jobs[i].TotalHoursWorked),
         EstimateCount         |-> IF jobs[i].EstimateCount.Valid
                                   THEN jobs[i].EstimateCount.Int ELSE 0]]

\* Lines 475-493: the relationships of the jobs stored under this batch.
BatchJobTechnicians(t, batchID) ==
    {[JobID |-> jt.job_id, TechnicianID |-> jt.technician_id, Role |-> jt.role] :
        jt \in {x \in t.job_technicians :
                   \E j \in t.jobs : j.id = x.job_id /\ j.import_batch_id = batchID}}

\* Lines 513-536: every stored job metric.
StoredJobMetrics(t) ==
    SetToSeq({[JobID          |-> x.job_id,
               Revenue        |-> x.revenue,
               TotalCosts     |-> x.total_costs,
               GrossProfit    |-> x.gross_profit,
               GrossMarginPct |-> x.gross_margin_pct,
               InvoiceCount   |-> x.invoice_count,
               HasAdjustment  |-> x.has_adjustment] : x \in t.job_metrics})

\* The result is [err, t, count, aborted]: a statement the server rejects
\* leaves the transaction aborted, an error raised while reading a result row
\* (rows.Scan, lines 464, 489, 526) does not.
calculateAndSaveTechnicianMetrics(t, jobs, batchID, fault) ==
    LET techIDs     == {x.id : x \in t.technicians}
        techMetrics == CalculateTechnicianMetrics(techIDs,
                           BatchJobTechnicians(t, batchID),
                           JobsForMetrics(jobs), StoredJobMetrics(t))
        saved       == SaveTechnicianMetrics(t, techMetrics)
    IN  IF fault.step = "tech_metrics" /\ fault.kind = "server"
        THEN [err |-> Err("failed to get technician IDs"), t |-> t, count |-> 0,
              aborted |-> TRUE]
        ELSE IF techIDs = {}
        THEN [err |-> NoErr, t |-> t, count |-> 0, aborted |-> FALSE]
        ELSE IF fault.step = "tech_metrics" /\ fault.kind = "client"
        THEN [err |-> Err("sql: Scan error"), t |-> t, count |-> 0, aborted |-> FALSE]
        ELSE IF saved.err # NoErr
        THEN [err |-> saved.err, t |-> t, count |-> 0, aborted |-> TRUE]
        ELSE [err |-> NoErr, t |-> saved.t, count |-> Cardinality(techMetrics),
              aborted |-> FALSE]

-----------------------------------------------------------------------------
(***************************************************************************)
(* Package parser (src/internal/parser/types.go, utils.go) and             *)
(* CalculateFileHash (src/unnamed/part_008 lines 170-198)                  *)
(*                                                                         *)
(* A report file is the sequence of its data rows; a row is a record of    *)
(* its cells.  A text cell is [name, padded]: its text without the blanks  *)
(* around it, and whether there are such blanks.  A number or date cell is *)
(* the value it spells, or an invalid value when the cell is empty.        *)
(***************************************************************************)

Cell(name) == [name |-> name, padded |-> FALSE]

\* SHA-256 of the file's bytes, in hex: equal for equal contents, and taken
\* to differ for different contents.
CalculateFileHash(file) == <<"sha256", file>>

CalculateFileHashes(jobsFile, invoicesFile) ==
    [jobsHash |-> CalculateFileHash(jobsFile),
     invoicesHash |-> CalculateFileHash(invoicesFile)]

parseNullableString(cell) ==
    IF TrimSpace(cell) = "" THEN NullString ELSE SomeString(TrimSpace(cell))

\* parser/utils.go lines 178-181; the cell holds its text in upper case.
parseBool(cell) == cell \in {"TRUE", "YES", "1"}

\* Seeded fault for C5_FailFastParsing: a row parser that lets an empty
\* Status through.
parseJobRowLenient(record, rowNum) ==
    [err |-> NoErr,
     job |-> [JobID                 |-> record.JobID,
              CustomerID            |-> record.CustomerID,
              CustomerName          |-> parseNullableString(record.CustomerName),
              Status                |-> record.Status,
              JobsSubtotal          |-> record.JobsSubtotal,
              JobCompletionDate     |-> record.CompletionDate,
              AssignedTechnicians   |-> record.AssignedTechnicians,
              SoldBy                |-> parseNullableString(record.SoldBy),
              PrimaryTechnician     |-> parseNullableString(record.PrimaryTechnician),
              TotalHoursWorked      |-> record.TotalHoursWorked,
              EstimateSalesSubtotal |-> NullDec,
              EstimateCount         |-> NullInt]]

\* parser/types.go lines 228-328.  The assigned-technicians cell is kept as
\* its comma-separated parts; the fields no column is read into stay nil.
parseJobRow(record, rowNum) ==
    IF record.JobID = ""
    THEN [err |-> ErrAt("required field is empty", "Job ID", rowNum)]
    ELSE IF record.CustomerID = ""
    THEN [err |-> ErrAt("required field is empty", "Customer ID", rowNum)]
    ELSE IF record.Status = ""
    THEN [err |-> ErrAt("required field is empty", "Status", rowNum)]
    ELSE [err |-> NoErr,
          job |-> [JobID                 |-> record.JobID,
                   CustomerID            |-> record.CustomerID,
                   CustomerName          |-> parseNullableString(record.CustomerName),
                   Status                |-> record.Status,
                   JobsSubtotal          |-> record.JobsSubtotal,
                   JobCompletionDate     |-> record.CompletionDate,
                   AssignedTechnicians   |-> record.AssignedTechnicians,
                   SoldBy                |-> parseNullableString(record.SoldBy),
                   PrimaryTechnician     |-> parseNullableString(record.PrimaryTechnician),
                   TotalHoursWorked      |-> record.TotalHoursWorked,
                   EstimateSalesSubtotal |-> NullDec,
                   EstimateCount         |-> NullInt]]

\* parser/types.go lines 331-416.
parseInvoiceRow(record, rowNum) ==
    IF record.InvoiceID = ""
    THEN [err |-> ErrAt("required field is empty", "Invoice #", rowNum)]
    ELSE IF record.JobID = ""
    THEN [err |-> ErrAt("required field is empty", "Job #", rowNum)]
    ELSE IF ~record.InvoiceDate.Valid
    THEN [err |-> ErrAt("required field is empty", "Invoice Date", rowNum)]
    ELSE [err     |-> NoErr,
          invoice |-> [InvoiceID    |-> record.InvoiceID,
                       JobID        |-> record.JobID,
                       InvoiceDate  |-> record.InvoiceDate.Time,
                       CostsTotal   |-> record.CostsTotal,
                       IsAdjustment |-> parseBool(record.IsAdjustment)]]

\* ParseJobs (lines 152-182): the first row that fails ends the parse.
RECURSIVE ParseJobsFrom(_, _, _)
ParseJobsFrom(records, i, jobs) ==
    IF i > Len(records) THEN [err |-> NoErr, jobs |-> jobs]
    ELSE LET r == parseJobRow(records[i], i + 1)
         IN  IF r.err # NoErr THEN [err |-> r.err, jobs |-> <<>>]
             ELSE ParseJobsFrom(records, i + 1, Append(jobs, r.job))

ParseJobs(file) == ParseJobsFrom(file, 1, <<>>)

\* ParseInvoices (lines 185-215).
RECURSIVE ParseInvoicesFrom(_, _, _)
ParseInvoicesFrom(records, i, invoices) ==
    IF i > Len(records) THEN [err |-> NoErr, invoices |-> invoices]
    ELSE LET r == parseInvoiceRow(records[i], i + 1)
         IN  IF r.err # NoErr THEN [err |-> r.err, invoices |-> <<>>]
             ELSE ParseInvoicesFrom(records, i + 1, Append(invoices, r.invoice))

ParseInvoices(file) == ParseInvoicesFrom(file, 1, <<>>)

\* parseFiles (src/unnamed/part_008 lines 551-579): jobs first, then invoices.
parseFiles(jobsFile, invoicesFile) ==
    LET j   == ParseJobs(jobsFile)
        inv == ParseInvoices(invoicesFile)
    IN  IF j.err # NoErr
        THEN [err |-> j.err, jobs |-> <<>>, invoices |-> <<>>]
        ELSE IF inv.err # NoErr
        THEN [err |-> inv.err, jobs |-> <<>>, invoices |-> <<>>]
        ELSE [err |-> NoErr, jobs |-> j.jobs, invoices |-> inv.invoices]

-----------------------------------------------------------------------------
(***************************************************************************)
(* ImportFiles (src/unnamed/part_008 lines 247-410)                        *)
(***************************************************************************)

NoValidation == [JobsWithoutInvoices |-> {}, Warnings |-> <<>>]

\* The nil *ImportResult.
NoResult ==
    [BatchID               |-> 0,
     JobsImported          |-> 0,
     InvoicesImported      |-> 0,
     InvoicesSkipped       |-> 0,
     CustomersUpserted     |-> 0,
     TechniciansImported   |-> 0,
     JobMetricsCalculated  |-> 0,
     TechMetricsCalculated |-> 0,
     ValidationResult      |-> NoValidation,
     AlreadyImported       |-> FALSE]

\* Lines 263-267.
AlreadyImportedResult(existingBatch) ==
    [NoResult EXCEPT !.BatchID = existingBatch.id, !.AlreadyImported = TRUE]

\* The error paths of steps 6-10 (lines 304-311, 315-322, 326-333, 337-344,
\* 348-355, 366-373): the batch is marked "failed" through the transaction,
\* which has no effect when the transaction is already aborted, and the call
\* returns; the deferred Rollback follows.
FailedStep(t, seq, aborted, batchID, err, context) ==
    [commit |-> FALSE,
     t      |-> IF aborted THEN t
                ELSE UpdateImportBatchStatus(t, batchID, "failed", SomeString(err.msg)),
     seq    |-> seq,
     err    |-> Wrap(context, err),
     result |-> NoResult,
     printed |-> NoErr]

\* Steps 5-12 (lines 289-409) on the transaction's tables t, one definition
\* per step, each taking the results of the steps before it (the locals of
\* ImportFiles).  The result is what the transaction holds when the call
\* reaches Commit or returns early, the sequences, the value the call returns
\* if Commit succeeds, and the warning it prints.

\* Lines 376-409: a technician-metrics error is printed and otherwise
\* dropped; the batch is marked "success" and the result is built.
MarkSuccess(batch, jobs, s6, s75, s8, validationResult, s10, s105) ==
    LET printed == IF s105.err # NoErr
                   THEN Wrap("Warning: failed to calculate technician metrics", s105.err)
                   ELSE NoErr
    IN  IF s105.aborted
        THEN \* lines 383-390: the status update fails in the aborted transaction
             [commit |-> FALSE, t |-> s105.t, seq |-> s75.seq,
              err |-> Err("failed to update batch status"), result |-> NoResult,
              printed |-> printed]
        ELSE [commit |-> TRUE,
              printed |-> printed,
              t      |-> UpdateImportBatchStatus(s105.t, batch.id, "success", NullString),
              seq    |-> s75.seq,
              err    |-> NoErr,
              result |-> [BatchID               |-> batch.id,
                          JobsImported          |-> Len(jobs),
                          InvoicesImported      |-> s8.imported,
                          InvoicesSkipped       |-> s8.skipped,
                          CustomersUpserted     |-> s6.count,
                          TechniciansImported   |-> s75.count,
                          JobMetricsCalculated  |-> s10.count,
                          TechMetricsCalculated |-> s105.count,
                          ValidationResult      |-> validationResult,
                          AlreadyImported       |-> FALSE]]

\* Lines 364-380: step 10's outcome, then step 10.5.
AfterJobMetrics(batch, jobs, fault, s6, s75, s8, validationResult, s10) ==
    IF s10.err # NoErr
    THEN FailedStep(s10.t, s75.seq, TRUE, batch.id, s10.err,
                    "failed to calculate job metrics")
    ELSE MarkSuccess(batch, jobs, s6, s75, s8, validationResult, s10,
             calculateAndSaveTechnicianMetrics(s10.t, jobs, batch.id, fault))

\* Lines 346-373: step 9's outcome, the warning about skipped invoices,
\* then step 10.
AfterValidateImport(batch, jobs, invoices, fault, s6, s7, s75, s8, s9) ==
    IF s9.err # NoErr
    THEN FailedStep(s8.t, s75.seq, s9.aborted, batch.id, s9.err, "validation failed")
    ELSE AfterJobMetrics(batch, jobs, fault, s6, s75, s8,
             [JobsWithoutInvoices |-> s9.JobsWithoutInvoices,
              Warnings |-> s9.Warnings \o
                  (IF s8.skipped > 0
                   THEN <<Warning("Skipped %d invoices referencing %d jobs not in jobs report",
                                  s8.skipped, Cardinality(s8.missingJobIDs))>>
                   ELSE <<>>)],
             calculateAndSaveJobMetrics(s8.t, jobs, invoices, s7.validJobIDs, fault))

\* Lines 335-355: step 8's outcome, then step 9.
AfterImportInvoices(batch, jobs, invoices, fault, s6, s7, s75, s8) ==
    IF s8.err # NoErr
    THEN FailedStep(s8.t, s75.seq, TRUE, batch.id, s8.err, "failed to import invoices")
    ELSE AfterValidateImport(batch, jobs, invoices, fault, s6, s7, s75, s8,
             ValidateImport(s8.t, batch.id, fault))

\* Lines 324-344: step 7.5's outcome, then step 8.
AfterImportTechnicians(batch, jobs, invoices, fault, s6, s7, s75) ==
    IF s75.err # NoErr
    THEN FailedStep(s75.t, s75.seq, TRUE, batch.id, s75.err,
                    "failed to import technicians")
    ELSE AfterImportInvoices(batch, jobs, invoices, fault, s6, s7, s75,
             importInvoices(s75.t, invoices, batch.id, s7.validJobIDs, fault))

\* Lines 313-333: step 7's outcome, then step 7.5.
AfterImportJobs(batch, seq, jobs, invoices, fault, s6, s7) ==
    IF s7.err # NoErr
    THEN FailedStep(s7.t, seq, TRUE, batch.id, s7.err, "failed to import jobs")
    ELSE AfterImportTechnicians(batch, jobs, invoices, fault, s6, s7,
             ImportTechnicians(s7.t, seq, jobs, fault))

\* Lines 302-322: step 6's outcome, then step 7.
AfterImportCustomers(batch, seq, jobs, invoices, fault, s6) ==
    IF s6.err # NoErr
    THEN FailedStep(s6.t, seq, TRUE, batch.id, s6.err, "failed to import customers")
    ELSE AfterImportJobs(batch, seq, jobs, invoices, fault, s6,
             importJobs(s6.t, jobs, batch.id, fault))

\* Lines 289-311: step 5's outcome, then step 6.
AfterCreateImportBatch(jobs, invoices, fault, s5) ==
    IF s5.err
    THEN [commit |-> FALSE, t |-> s5.t, seq |-> s5.seq,
          err |-> Err("failed to create import batch"), result |-> NoResult,
          printed |-> NoErr]
    ELSE AfterImportCustomers(s5.row, s5.seq, jobs, invoices, fault,
             importCustomers(s5.t, jobs, fault))

ImportTransaction(t, seq, hashes, jobs, invoices, fault) ==
    AfterCreateImportBatch(jobs, invoices, fault,
        CreateImportBatch(t, seq,
            [JobReportHash     |-> hashes.jobsHash,
             InvoiceReportHash |-> hashes.invoicesHash,
             RowCountJobs      |-> Len(jobs),
             RowCountInvoices  |-> Len(invoices),
             Status            |-> "pending"]))

-----------------------------------------------------------------------------
(***************************************************************************)
(* The report files the importer is run on                                 *)
(***************************************************************************)

\* The most import transactions (committed or not) in one behaviour.
MaxBatches == 2
\* The most data rows of a jobs / invoices report.
MaxJobRows == 2
MaxInvoiceRows == 2

JobRecordA ==
    [JobID |-> "J1", CustomerID |-> "C1", CustomerName |-> Cell("Acme"),
     Status |-> "Completed", JobsSubtotal |-> SomeDec(Dec(1000)),
     CompletionDate |-> SomeTime(1), AssignedTechnicians |-> <<>>,
     SoldBy |-> Cell("A"), PrimaryTechnician |-> Cell("A"),
     TotalHoursWorked |-> NullDec]

JobRecordB ==
    [JobID |-> "J2", CustomerID |-> "C2", CustomerName |-> Cell("Bolt"),
     Status |-> "Completed", JobsSubtotal |-> SomeDec(Dec(500)),
     CompletionDate |-> SomeTime(2), AssignedTechnicians |-> <<>>,
     SoldBy |-> Cell(""), PrimaryTechnician |-> Cell("B"),
     TotalHoursWorked |-> NullDec]

\* A row whose required Status cell is empty.
JobRecordMalformed == [JobRecordB EXCEPT !.Status = ""]

\* The parser stops at the first malformed row, so a file has at most one,
\* and has it last.
MalformedLast(file, bad) == \A i \in 1..(Len(file) - 1) : file[i] # bad

\* A report in which technician A sold every job and ran only the first:
\* enough jobs for A's conversion rate to need four integer digits.
SalesHeavyJobIDs == <<"J1", "J2", "J3", "J4", "J5", "J6", "J7", "J8", "J9", "J10">>

SalesHeavyJobs ==
    [i \in 1..Len(SalesHeavyJobIDs) |->
        [JobRecordA EXCEPT !.JobID = SalesHeavyJobIDs[i],
                           !.PrimaryTechnician = IF i = 1 THEN Cell("A") ELSE Cell("B")]]

JobFiles ==
    {f \in SeqsUpTo({JobRecordA, JobRecordB, JobRecordMalformed}, MaxJobRows) :
        MalformedLast(f, JobRecordMalformed)}
    \cup {SalesHeavyJobs}

InvoiceRecordP ==
    [InvoiceID |-> "I1", JobID |-> "J1", InvoiceDate |-> SomeTime(1),
     CostsTotal |-> SomeDec(Dec(300)), IsAdjustment |-> "FALSE"]

InvoiceRecordQ ==
    [InvoiceID |-> "I2", JobID |-> "J2", InvoiceDate |-> SomeTime(2),
     CostsTotal |-> SomeDec(Dec(100)), IsAdjustment |-> "TRUE"]

\* A row whose required Invoice Date cell is empty.
InvoiceRecordMalformed == [InvoiceRecordQ EXCEPT !.InvoiceDate = NullTime]

InvoiceFiles ==
    {f \in SeqsUpTo({InvoiceRecordP, InvoiceRecordQ, InvoiceRecordMalformed},
                    MaxInvoiceRows) :
        MalformedLast(f, InvoiceRecordMalformed)}

-----------------------------------------------------------------------------
(***************************************************************************)
(* The importer as a state machine: one ImportFiles call at a time         *)
(***************************************************************************)

VARIABLES
    db,     \* the committed contents of the tables
    seqs,   \* the sequences
    pc,     \* where the current call is: idle, tx, commit, rollback, done
    run,    \* the call's arguments and locals
    tx,     \* the tables as the open transaction sees them
    out,    \* what the call returns, and how far it got
    pre,    \* the committed tables when the call started
    calc    \* a call of the job metrics calculator: arguments and result

vars == <<db, seqs, pc, run, tx, out, pre, calc>>

NoRun ==
    [jobsFile |-> <<>>, invoicesFile |-> <<>>,
     hashes |-> CalculateFileHashes(<<>>, <<>>),
     jobs |-> <<>>, invoices |-> <<>>, retry |-> FALSE]

NoOut ==
    [err |-> NoErr, result |-> NoResult, printed |-> NoErr,
     parsed |-> FALSE, txOpened |-> FALSE]

NoCalc == [jobs |-> <<>>, invoices |-> <<>>, metrics |-> <<>>, done |-> FALSE]

InitImporter ==
    /\ db = EmptyTables
    /\ seqs = InitSequences
    /\ pc = "idle"
    /\ run = NoRun
    /\ tx = EmptyTables
    /\ out = NoOut
    /\ pre = EmptyTables

Init ==
    /\ InitImporter
    /\ calc = NoCalc

\* Steps 1-4 (lines 250-284): hash, look the pair up, parse, begin.
Start(jobsFile, invoicesFile, retry) ==
    LET hashes   == CalculateFileHashes(jobsFile, invoicesFile)
        existing == GetImportBatchByHashes(db, hashes.jobsHash, hashes.invoicesHash)
        parsed   == parseFiles(jobsFile, invoicesFile)
        r        == [jobsFile |-> jobsFile, invoicesFile |-> invoicesFile,
                     hashes |-> hashes, jobs |-> <<>>, invoices |-> <<>>,
                     retry |-> retry]
    IN  /\ seqs.import_batches < MaxBatches
        /\ pre' = db
        /\ UNCHANGED <<db, seqs, calc>>
        /\ IF existing # {}
           THEN /\ run' = r
                /\ out' = [NoOut EXCEPT
                             !.result = AlreadyImportedResult(CHOOSE b \in existing : TRUE)]
                /\ tx' = EmptyTables
                /\ pc' = "done"
           ELSE IF parsed.err # NoErr
           THEN /\ run' = r
                /\ out' = [NoOut EXCEPT !.err = Wrap("failed to parse files", parsed.err),
                                        !.parsed = TRUE]
                /\ tx' = EmptyTables
                /\ pc' = "done"
           ELSE /\ run' = [r EXCEPT !.jobs = parsed.jobs, !.invoices = parsed.invoices]
                /\ out' = [NoOut EXCEPT !.parsed = TRUE, !.txOpened = TRUE]
                /\ tx' = db
                /\ pc' = "tx"

\* ImportFiles is called.
Call ==
    /\ pc = "idle"
    /\ \E jobsFile \in JobFiles, invoicesFile \in InvoiceFiles :
          Start(jobsFile, invoicesFile, FALSE)

\* Steps 5-11 inside the transaction.
RunTransaction ==
    /\ pc = "tx"
    /\ \E fault \in Faults :
          LET r == ImportTransaction(tx, seqs, run.hashes, run.jobs, run.invoices, fault)
          IN  /\ tx' = r.t
              /\ seqs' = r.seq
              /\ out' = [out EXCEPT !.err = r.err, !.result = r.result,
                                    !.printed = r.printed]
              /\ pc' = IF r.commit THEN "commit" ELSE "rollback"
    /\ UNCHANGED <<db, run, pre, calc>>

\* Step 12 (lines 393-409): the transaction's tables become the committed ones.
Commit ==
    /\ pc = "commit"
    /\ db' = tx
    /\ tx' = EmptyTables
    /\ pc' = "done"
    /\ UNCHANGED <<seqs, run, out, pre, calc>>

\* tx.Commit fails (lines 393-395): nothing is committed.
CommitFails ==
    /\ pc = "commit"
    /\ tx' = EmptyTables
    /\ out' = [out EXCEPT !.err = Err("failed to commit transaction"),
                          !.result = NoResult]
    /\ pc' = "done"
    /\ UNCHANGED <<db, seqs, run, pre, calc>>

\* Seeded fault for C2_Atomicity: an early return that keeps what the
\* transaction wrote.
RollbackKeepsWrites ==
    /\ pc = "rollback"
    /\ db' = tx
    /\ tx' = EmptyTables
    /\ pc' = "done"
    /\ UNCHANGED <<seqs, run, out, pre, calc>>

\* Seeded fault for C4_RetryAfterFailure: an early return that keeps the
\* run's batch row.
RollbackKeepsBatchRow ==
    /\ pc = "rollback"
    /\ db' = [db EXCEPT !.import_batches = tx.import_batches]
    /\ tx' = EmptyTables
    /\ pc' = "done"
    /\ UNCHANGED <<seqs, run, out, pre, calc>>

\* The deferred tx.Rollback() (line 284) after an early return.
Rollback ==
    /\ pc = "rollback"
    /\ tx' = EmptyTables
    /\ pc' = "done"
    /\ UNCHANGED <<db, seqs, run, out, pre, calc>>

\* The caller has the result; the importer is ready for the next call.
Return ==
    /\ pc = "done"
    /\ pc' = "idle"
    /\ run' = NoRun
    /\ out' = NoOut
    /\ pre' = db
    /\ UNCHANGED <<db, seqs, tx, calc>>

\* The caller runs the same import again after it failed inside the
\* transaction.
Retry ==
    /\ pc = "done"
    /\ out.err # NoErr
    /\ out.txOpened
    /\ Start(run.jobsFile, run.invoicesFile, TRUE)

Next ==
    \/ Call
    \/ RunTransaction
    \/ Commit
    \/ CommitFails
    \/ Rollback
    \/ Return
    \/ Retry

Spec == Init /\ [][Next]_vars

-----------------------------------------------------------------------------
(***************************************************************************)
(* Properties of the import pipeline (specification Spec)                  *)
(***************************************************************************)

\* The rows of import_batches in tables t for the file pair of the current call.
BatchRowsOfRun(t) ==
    {b \in t.import_batches :
        /\ b.job_report_hash = CalculateFileHash(run.jobsFile)
        /\ b.invoice_report_hash = CalculateFileHash(run.invoicesFile)}

\* The tables other than import_batches.
BusinessTables(t) ==
    <<t.customers, t.jobs, t.invoices, t.technicians, t.job_technicians,
      t.job_metrics, t.technician_metrics>>

\* The errors ImportFiles returns when one of steps 6-10 fails.
StepErrors ==
    {"failed to import customers", "failed to import jobs",
     "failed to import technicians", "failed to import invoices",
     "validation failed", "failed to calculate job metrics"}

\* The call failed in one of the steps 6-10 and has returned.
FailedInStep == pc = "done" /\ out.txOpened /\ out.err.msg \in StepErrors

\* The call committed a new batch and has returned.
Succeeded == pc = "done" /\ out.txOpened /\ out.err = NoErr

\* C1: when a batch is committed for the hash pair of the files of a call,
\* the call goes straight to its end: it returns no error, AlreadyImported =
\* true and the id of that batch, it has not parsed, it has opened no
\* transaction, and every table is as it was before the call.
C1_IdempotentDedup ==
    (pc # "idle" /\ BatchRowsOfRun(pre) # {}) =>
        /\ pc = "done"
        /\ out.err = NoErr
        /\ out.result.AlreadyImported
        /\ \A b \in BatchRowsOfRun(pre) : out.result.BatchID = b.id
        /\ ~out.parsed
        /\ ~out.txOpened
        /\ tx = EmptyTables
        /\ db = pre

\* A second call with the files of a committed batch that stored data.
C1_Witness ==
    /\ pc = "done"
    /\ out.result.AlreadyImported
    /\ BatchRowsOfRun(pre) # {}
    /\ pre.jobs # {}
    /\ pre.invoices # {}

\* C2: when a step of the transaction fails, the call returns an error, and
\* after it the customers, jobs, invoices, technicians, job_technicians,
\* job_metrics and technician_metrics tables are as they were before the call.
C2_Atomicity ==
    /\ pc = "rollback" => out.err # NoErr
    /\ FailedInStep => BusinessTables(db) = BusinessTables(pre)

\* A run that had inserted a job and an invoice when it hit a duplicate
\* invoice id, on top of an earlier committed batch.
C2_Witness ==
    /\ FailedInStep
    /\ out.err.msg = "failed to import invoices"
    /\ out.err.cause = "failed to insert invoice"
    /\ out.err.row = 3
    /\ pre.jobs # {}

\* C3: after a call has failed in one of the steps 6-10, import_batches holds
\* a row for the run with status "failed" and the error text as its message.
C3_FailureIsAuditable ==
    FailedInStep =>
        \E b \in BatchRowsOfRun(db) :
            /\ b.status = "failed"
            /\ b.error_message = SomeString(out.err.cause)

\* C4: a call repeated with the same two files after it failed inside the
\* transaction is not answered "already imported" and is not stopped by the
\* unique index on the hash pair: it parses, opens a transaction, and gets
\* past the creation of its batch row, which has a new id.
C4_RetryAfterFailure ==
    run.retry =>
        /\ ~out.result.AlreadyImported
        /\ out.parsed
        /\ out.txOpened
        /\ out.err.msg # "failed to create import batch"
        /\ BatchRowsOfRun(pre) = {}
        /\ Succeeded =>
              /\ out.result.BatchID = seqs.import_batches
              /\ \E b \in BatchRowsOfRun(db) :
                    b.id = out.result.BatchID /\ b.status = "success"

\* A retry that went through and committed.
C4_Witness ==
    /\ run.retry
    /\ Succeeded
    /\ db.jobs # {}

\* A report has a row the parser rejects.
HasMalformedRow ==
    \/ \E i \in 1..Len(run.jobsFile) :
          \/ run.jobsFile[i].JobID = ""
          \/ run.jobsFile[i].CustomerID = ""
          \/ run.jobsFile[i].Status = ""
    \/ \E i \in 1..Len(run.invoicesFile) :
          \/ run.invoicesFile[i].InvoiceID = ""
          \/ run.invoicesFile[i].JobID = ""
          \/ ~run.invoicesFile[i].InvoiceDate.Valid

\* C5: when a row of either file fails validation (and the pair is not
\* already imported, so that the files are parsed), the call returns the
\* parse error without opening a transaction: no table is written and no
\* batch id is drawn.
C5_FailFastParsing ==
    (pc # "idle" /\ HasMalformedRow /\ BatchRowsOfRun(pre) = {}) =>
        /\ pc = "done"
        /\ out.err.msg = "failed to parse files"
        /\ out.err.cause = "required field is empty"
        /\ ~out.txOpened
        /\ tx = EmptyTables
        /\ db = pre
        /\ BatchRowsOfRun(db) = {}

\* A parse failure in the invoices file, after the jobs file parsed, with
\* data of an earlier batch in the tables.
C5_Witness ==
    /\ pc = "done"
    /\ out.err.msg = "failed to parse files"
    /\ out.err.id = "Invoice Date"
    /\ Len(run.jobsFile) > 0
    /\ db.jobs # {}

\* C6: when calculateAndSaveTechnicianMetrics has returned an error (which
\* the call prints) after every step before it succeeded, the call commits:
\* it returns no error and TechMetricsCalculated = 0, and the batch is
\* stored with status "success".
C6_TechMetricsFailureNonFatal ==
    (out.printed # NoErr /\ out.err.msg # "failed to commit transaction") =>
        /\ pc \in {"commit", "done"}
        /\ out.err = NoErr
        /\ out.result.TechMetricsCalculated = 0
        /\ pc = "done" =>
              \E b \in BatchRowsOfRun(db) :
                  b.id = out.result.BatchID /\ b.status = "success"

\* The ids of the jobs the committed batch of the call stored.
JobsOfBatch == {j.id : j \in {x \in db.jobs : x.import_batch_id = out.result.BatchID}}

\* The invoice rows of the call whose job the batch stored / did not store.
KeptRows    == {i \in 1..Len(run.invoices) : run.invoices[i].JobID \in JobsOfBatch}
DroppedRows == {i \in 1..Len(run.invoices) : run.invoices[i].JobID \notin JobsOfBatch}

SkippedWarnings ==
    SelectSeq(out.result.ValidationResult.Warnings,
              LAMBDA w : w.kind = "Skipped %d invoices referencing %d jobs not in jobs report")

\* C7: after a successful import the invoices stored under the batch are
\* exactly the rows whose job id is a job of the batch; every other row is
\* counted once in InvoicesSkipped, so that imported + skipped is the number
\* of parsed rows; and there is one "Skipped" warning, with the skipped count
\* and the number of distinct missing job ids, exactly when a row was skipped.
C7_OrphanInvoices ==
    Succeeded =>
        /\ {i.id : i \in {x \in db.invoices : x.import_batch_id = out.result.BatchID}}
              = {run.invoices[i].InvoiceID : i \in KeptRows}
        /\ \A i \in DroppedRows :
              ~\E x \in db.invoices \ pre.invoices : x.id = run.invoices[i].InvoiceID
        /\ out.result.InvoicesImported = Cardinality(KeptRows)
        /\ out.result.InvoicesSkipped = Cardinality(DroppedRows)
        /\ out.result.InvoicesImported + out.result.InvoicesSkipped = Len(run.invoices)
        /\ Len(SkippedWarnings) = IF out.result.InvoicesSkipped > 0 THEN 1 ELSE 0
        /\ \A k \in 1..Len(SkippedWarnings) :
              /\ SkippedWarnings[k].n = out.result.InvoicesSkipped
              /\ SkippedWarnings[k].m =
                    Cardinality({run.invoices[i].JobID : i \in DroppedRows})

\* A batch that stored one invoice and dropped another whose job an earlier
\* batch had stored.
C7_Witness ==
    /\ Succeeded
    /\ out.result.InvoicesImported > 0
    /\ out.result.InvoicesSkipped > 0
    /\ \E i \in DroppedRows : \E j \in pre.jobs : j.id = run.invoices[i].JobID

-----------------------------------------------------------------------------
(***************************************************************************)
(* CalculateJobMetrics on its own (specification SpecJobMetrics)           *)
(***************************************************************************)

\* The most jobs / invoices handed to the calculator.
MaxMetricJobs == 2
MaxMetricInvoices == 3

MetricJobIDs == {"J1", "J2"}

\* Revenues: negative, zero, positive.
MetricRevenues == {Dec(-300), 0, Dec(1000)}

MetricCosts == {Dec(100), Dec(200), Dec(300)}

JobDataValues ==
    [ID : MetricJobIDs, Status : {"Completed", "Canceled"}, JobsSubtotal : MetricRevenues]

InvoiceDataValues ==
    [JobID : MetricJobIDs, CostsTotal : MetricCosts, IsAdjustment : BOOLEAN]

\* The importer hands over jobs it has inserted, whose ids differ.
DistinctIDs(jobs) ==
    \A i, k \in 1..Len(jobs) : i # k => jobs[i].ID # jobs[k].ID

InitJobMetrics ==
    /\ InitImporter
    /\ \E jobs \in SeqsUpTo(JobDataValues, MaxMetricJobs),
          invoices \in SeqsUpTo(InvoiceDataValues, MaxMetricInvoices) :
          /\ DistinctIDs(jobs)
          /\ calc = [jobs |-> jobs, invoices |-> invoices, metrics |-> <<>>,
                     done |-> FALSE]

\* metrics.CalculateJobMetrics(jobData, invoiceData) is called.
Calculate ==
    /\ ~calc.done
    /\ calc' = [calc EXCEPT !.metrics = CalculateJobMetrics(calc.jobs, calc.invoices),
                            !.done = TRUE]
    /\ UNCHANGED <<db, seqs, pc, run, tx, out, pre>>

NextJobMetrics == Calculate

SpecJobMetrics == InitJobMetrics /\ [][NextJobMetrics]_vars

-----------------------------------------------------------------------------
(***************************************************************************)
(* Properties of CalculateJobMetrics (specification SpecJobMetrics)        *)
(***************************************************************************)

\* The invoices of the k-th job handed to the calculator, in input order.
InvoicesOfJob(k) == SelectSeq(calc.invoices, LAMBDA inv : inv.JobID = calc.jobs[k].ID)

\* The metrics returned for the k-th job.
MetricsOfJob(k) == SelectSeq(calc.metrics, LAMBDA m : m.JobID = calc.jobs[k].ID)

\* A qualifying job: completed, non-zero revenue subtotal, at least one invoice.
QualifyingJob(k) ==
    /\ calc.jobs[k].Status = "Completed"
    /\ calc.jobs[k].JobsSubtotal # 0
    /\ Len(InvoicesOfJob(k)) > 0

HasAdjustmentInvoice(k) ==
    \E i \in 1..Len(InvoicesOfJob(k)) : InvoicesOfJob(k)[i].IsAdjustment

CostsOfJob(k) == [i \in 1..Len(InvoicesOfJob(k)) |-> InvoicesOfJob(k)[i].CostsTotal]

\* profit / revenue x 100 in the calculator's decimal arithmetic.
Percent(profit, revenue) == DecMul(DecDiv(profit, revenue), Dec(100))

\* The spec's example: revenue 1000, invoices costing 300 and 200.
ExampleJob(k) ==
    /\ calc.jobs[k].JobsSubtotal = Dec(1000)
    /\ Len(InvoicesOfJob(k)) = 2
    /\ InvoicesOfJob(k)[1].CostsTotal = Dec(300) /\ ~InvoicesOfJob(k)[1].IsAdjustment
    /\ InvoicesOfJob(k)[2].CostsTotal = Dec(200) /\ ~InvoicesOfJob(k)[2].IsAdjustment

\* What C8 says of the metric m of a qualifying job without adjustment
\* invoice, the margin apart.
SumOfCostsMetric(k, m) ==
    /\ m.Revenue = calc.jobs[k].JobsSubtotal
    /\ m.TotalCosts = SeqSum(CostsOfJob(k))
    /\ m.GrossProfit = calc.jobs[k].JobsSubtotal - SeqSum(CostsOfJob(k))
    /\ ~m.HasAdjustment
    /\ ExampleJob(k) => m.GrossProfit = Dec(500) /\ m.GrossMarginPct = SomeDec(Dec(50))

\* C8 (as amended): a qualifying job none of whose invoices is an adjustment
\* gets one metric, with total cost = the sum of the cost totals of all its
\* invoices, gross profit = revenue - total cost, has_adjustment = false, and
\* gross margin = gross profit / revenue x 100 when the revenue is greater
\* than zero; the margin is absent when the revenue is negative.
C8_MarginWithoutAdjustment ==
    calc.done =>
        \A k \in 1..Len(calc.jobs) :
            (QualifyingJob(k) /\ ~HasAdjustmentInvoice(k)) =>
                /\ Len(MetricsOfJob(k)) = 1
                /\ SumOfCostsMetric(k, MetricsOfJob(k)[1])
                /\ LET m == MetricsOfJob(k)[1]
                   IN  IF m.Revenue > 0
                       THEN m.GrossMarginPct = SomeDec(Percent(m.GrossProfit, m.Revenue))
                       ELSE m.GrossMarginPct = NullDec

\* C8 as stated: the gross margin of every such job is gross profit /
\* revenue x 100.
C8_MarginAsStated ==
    calc.done =>
        \A k \in 1..Len(calc.jobs) :
            (QualifyingJob(k) /\ ~HasAdjustmentInvoice(k)) =>
                /\ Len(MetricsOfJob(k)) = 1
                /\ SumOfCostsMetric(k, MetricsOfJob(k)[1])
                /\ LET m == MetricsOfJob(k)[1]
                   IN  m.GrossMarginPct = SomeDec(Percent(m.GrossProfit, m.Revenue))

\* The example job has been calculated, next to a job with negative revenue.
C8_Witness ==
    /\ calc.done
    /\ \E k \in 1..Len(calc.jobs) :
          QualifyingJob(k) /\ ~HasAdjustmentInvoice(k) /\ ExampleJob(k)
    /\ \E k \in 1..Len(calc.jobs) :
          QualifyingJob(k) /\ ~HasAdjustmentInvoice(k) /\ calc.jobs[k].JobsSubtotal < 0

\* C9: a qualifying job with an adjustment invoice gets one metric whose
\* total cost is the cost total of the first adjustment invoice of the job
\* in input order, whatever the other invoices cost; has_adjustment is true
\* and invoice_count counts all the job's invoices.  (Invoice dates are not
\* among the calculator's inputs.)  With revenue 1000 and the cost 100 the
\* gross profit is 900 and the margin 90.
C9_AdjustmentOverride ==
    calc.done =>
        \A k \in 1..Len(calc.jobs) :
            (QualifyingJob(k) /\ HasAdjustmentInvoice(k)) =>
                /\ Len(MetricsOfJob(k)) = 1
                /\ LET m   == MetricsOfJob(k)[1]
                       inv == InvoicesOfJob(k)
                   IN  /\ \E i \in 1..Len(inv) :
                             /\ inv[i].IsAdjustment
                             /\ \A h \in 1..(i - 1) : ~inv[h].IsAdjustment
                             /\ m.TotalCosts = inv[i].CostsTotal
                       /\ m.HasAdjustment
                       /\ m.InvoiceCount = Len(inv)
                       /\ m.GrossProfit = m.Revenue - m.TotalCosts
                       /\ (m.Revenue = Dec(1000) /\ m.TotalCosts = Dec(100)) =>
                             /\ m.GrossProfit = Dec(900)
                             /\ m.GrossMarginPct = SomeDec(Dec(90))

\* A job with an ordinary invoice followed by two adjustment invoices of
\* different cost has been calculated.
C9_Witness ==
    /\ calc.done
    /\ \E k \in 1..Len(calc.jobs) :
          /\ QualifyingJob(k)
          /\ Len(InvoicesOfJob(k)) = 3
          /\ ~InvoicesOfJob(k)[1].IsAdjustment
          /\ InvoicesOfJob(k)[2].IsAdjustment
          /\ InvoicesOfJob(k)[3].IsAdjustment
          /\ InvoicesOfJob(k)[2].CostsTotal # InvoicesOfJob(k)[3].CostsTotal

\* Every returned metric has a margin exactly when its revenue is > 0.
MarginPresentIffPositiveRevenue ==
    \A i \in 1..Len(calc.metrics) :
        calc.metrics[i].GrossMarginPct.Valid <=> calc.metrics[i].Revenue > 0

\* A completed job with an invoice and revenue subtotal 0.
ZeroRevenueJob(k) ==
    /\ calc.jobs[k].Status = "Completed"
    /\ calc.jobs[k].JobsSubtotal = 0
    /\ Len(InvoicesOfJob(k)) > 0

\* C10 (as amended): every job metric has gross_margin_pct present exactly
\* when its revenue is > 0; a completed job with an invoice and revenue
\* subtotal 0 gets no job metric at all.
C10_NullMargin ==
    calc.done =>
        /\ MarginPresentIffPositiveRevenue
        /\ \A k \in 1..Len(calc.jobs) : ZeroRevenueJob(k) => Len(MetricsOfJob(k)) = 0

\* C10 as stated: such a job gets a job metric, whose gross_margin_pct is
\* absent.
C10_NullMarginAsStated ==
    calc.done =>
        /\ MarginPresentIffPositiveRevenue
        /\ \A k \in 1..Len(calc.jobs) :
              ZeroRevenueJob(k) =>
                  /\ Len(MetricsOfJob(k)) = 1
                  /\ ~MetricsOfJob(k)[1].GrossMarginPct.Valid

\* A zero-revenue job has been through the calculator together with a job
\* of negative revenue, which got a metric without margin.
C10_Witness ==
    /\ calc.done
    /\ \E k \in 1..Len(calc.jobs) : ZeroRevenueJob(k)
    /\ \E i \in 1..Len(calc.metrics) :
          calc.metrics[i].Revenue < 0 /\ ~calc.metrics[i].GrossMarginPct.Valid

-----------------------------------------------------------------------------
(***************************************************************************)
(* Imports of jobs that differ in what qualifies them for a job metric     *)
(* (specification SpecQualification)                                       *)
(***************************************************************************)

\* A job that is not completed, with revenue.
JobRecordCanceled == [JobRecordA EXCEPT !.JobID = "J3", !.Status = "Canceled"]

\* A completed job whose Jobs Subtotal cell is empty (decimalOrZero: 0).
JobRecordNoRevenue == [JobRecordB EXCEPT !.JobID = "J4", !.JobsSubtotal = NullDec]

InvoiceRecordR == [InvoiceRecordP EXCEPT !.InvoiceID = "I3", !.JobID = "J3"]
InvoiceRecordS == [InvoiceRecordQ EXCEPT !.InvoiceID = "I4", !.JobID = "J4"]

\* The subsequences of s with at most n elements: reports without a repeated id.
SubSeqsUpTo(s, n) ==
    {SelectSeq(s, LAMBDA x : x \in keep) :
        keep \in {k \in SUBSET Range(s) : Cardinality(k) <= n}}

QualificationJobFiles ==
    SubSeqsUpTo(<<JobRecordA, JobRecordCanceled, JobRecordNoRevenue>>, MaxJobRows)

QualificationInvoiceFiles ==
    SubSeqsUpTo(<<InvoiceRecordP, InvoiceRecordR, InvoiceRecordS>>, MaxInvoiceRows)

\* ImportFiles is called on such a pair of reports.
CallQualification ==
    /\ pc = "idle"
    /\ \E jobsFile \in QualificationJobFiles, invoicesFile \in QualificationInvoiceFiles :
          Start(jobsFile, invoicesFile, FALSE)

NextQualification ==
    \/ CallQualification
    \/ RunTransaction
    \/ Commit
    \/ CommitFails
    \/ Rollback
    \/ Return
    \/ Retry

SpecQualification == Init /\ [][NextQualification]_vars

-----------------------------------------------------------------------------
(***************************************************************************)
(* Properties of the stored job metrics (specification SpecQualification)  *)
(***************************************************************************)

\* The job rows the committed batch of the call stored.
JobRowsOfBatch == {x \in db.jobs : x.import_batch_id = out.result.BatchID}

JobMetricRowsOf(t, id) == {m \in t.job_metrics : m.job_id = id}

\* A stored job qualifies: completed, non-zero revenue, an invoice stored for it.
StoredJobQualifies(j) ==
    /\ j.status = "Completed"
    /\ j.jobs_subtotal # 0
    /\ \E i \in db.invoices : i.job_id = j.id

\* A metric for the job of the stored row x that differs from x in each of
\* revenue, total cost, gross profit, margin, invoice count and has_adjustment.
OtherMetricFor(x) ==
    [JobID          |-> x.job_id,
     Revenue        |-> x.revenue + One,
     TotalCosts     |-> x.total_costs + One,
     GrossProfit    |-> x.gross_profit + One,
     GrossMarginPct |-> IF x.gross_margin_pct.Valid THEN NullDec ELSE SomeDec(One),
     InvoiceCount   |-> x.invoice_count + 1,
     HasAdjustment  |-> ~x.has_adjustment]

\* C11: after a successful import a job of the batch has a job_metrics row if
\* and only if it is completed, has a non-zero revenue subtotal and has an
\* invoice stored for it, and JobMetricsCalculated counts these rows; no job
\* id ever has two rows, in the committed tables or in the transaction; and
\* saving another metric for a job id that has a row leaves one row for the
\* job, which holds the new revenue, total cost, gross profit, margin,
\* invoice count and has_adjustment, and leaves the other rows alone.
C11_JobMetricQualification ==
    /\ Succeeded =>
          /\ \A j \in JobRowsOfBatch :
                JobMetricRowsOf(db, j.id) # {} <=> StoredJobQualifies(j)
          /\ out.result.JobMetricsCalculated =
                Cardinality({j \in JobRowsOfBatch : StoredJobQualifies(j)})
    /\ \A t \in {db, tx} : \A m1, m2 \in t.job_metrics :
          m1.job_id = m2.job_id => m1 = m2
    /\ \A x \in db.job_metrics :
          LET saved == SaveJobMetrics(db, <<OtherMetricFor(x)>>)
          IN  /\ saved.err = NoErr
              /\ JobMetricRowsOf(saved.t, x.job_id) =
                    {[job_id           |-> x.job_id,
                      revenue          |-> x.revenue + One,
                      total_costs      |-> x.total_costs + One,
                      gross_profit     |-> x.gross_profit + One,
                      gross_margin_pct |-> OtherMetricFor(x).GrossMarginPct,
                      invoice_count    |-> x.invoice_count + 1,
                      has_adjustment   |-> ~x.has_adjustment]}
              /\ saved.t.job_metrics \ JobMetricRowsOf(saved.t, x.job_id) =
                    db.job_metrics \ {x}

\* A batch with a job that got a row and a job that is not completed and got
\* none although an invoice is stored for it.
C11_Witness ==
    /\ Succeeded
    /\ \E j \in JobRowsOfBatch : JobMetricRowsOf(db, j.id) # {}
    /\ \E j \in JobRowsOfBatch :
          /\ j.status # "Completed"
          /\ \E i \in db.invoices : i.job_id = j.id
          /\ JobMetricRowsOf(db, j.id) = {}

-----------------------------------------------------------------------------
(***************************************************************************)
(* Properties of the stored technician metrics (specification Spec)        *)
(***************************************************************************)

\* Every stored job, as the technician calculator takes jobs.
AllJobsForMetrics(t) ==
    SetToSeq({[ID                    |-> j.id,
               Status                |-> j.status,
               JobsSubtotal          |-> j.jobs_subtotal,
               EstimateSalesSubtotal |-> j.estimate_sales_subtotal,
               TotalHoursWorked      |-> j.total_hours_worked,
               EstimateCount         |-> IF j.estimate_count.Valid
                                         THEN j.estimate_count.Int ELSE 0] :
              j \in t.jobs})

\* Every stored job-technician association, whichever batch stored it.
AllJobTechnicians(t) ==
    {[JobID |-> jt.job_id, TechnicianID |-> jt.technician_id, Role |-> jt.role] :
        jt \in t.job_technicians}

\* The technician_metrics row computed for technician id from all of t.
GlobalTechnicianMetricRow(t, id) ==
    TechnicianMetricRow(calculateTechnicianAverages(
        TechnicianTotals(id, AllJobTechnicians(t), AllJobsForMetrics(t),
                         StoredJobMetrics(t))))

\* The technicians a job row of the call names.
TechniciansOfRun ==
    UNION {{JobRoles(run.jobs[i])[k].name : k \in 1..Len(JobRoles(run.jobs[i]))} :
              i \in 1..Len(run.jobs)}

\* C12: after a successful import whose technician-metrics step succeeded,
\* the technician_metrics row of every technician is the one computed from
\* all stored jobs, associations and job metrics; and a technician the batch
\* does not mention keeps the opportunities, conversions and total sales it
\* had before the call.
C12_GlobalRecomputation ==
    (Succeeded /\ out.printed = NoErr) =>
        /\ \A tech \in db.technicians :
              {m \in db.technician_metrics : m.technician_id = tech.id}
                 = {GlobalTechnicianMetricRow(db, tech.id)}
        /\ \A tech \in pre.technicians :
              tech.name \notin TechniciansOfRun =>
                 \A old \in pre.technician_metrics :
                    old.technician_id = tech.id =>
                       \E m \in db.technician_metrics :
                          /\ m.technician_id = tech.id
                          /\ m.opportunities = old.opportunities
                          /\ m.conversions = old.conversions
                          /\ m.total_sales = old.total_sales

-----------------------------------------------------------------------------
(***************************************************************************)
(* CalculateTechnicianMetrics on its own                                   *)
(* (specification SpecTechnicianMetrics)                                   *)
(***************************************************************************)

\* The technician ids handed to the calculator.
MetricTechnicianIDs == {1, 2}

TechJobValues(id) ==
    [ID                    : {id},
     Status                : {"Completed", "Canceled"},
     JobsSubtotal          : {Dec(-200), 0, Dec(500)},
     EstimateSalesSubtotal : {0, Dec(300)},
     TotalHoursWorked      : {0, Dec(3)},
     EstimateCount         : {0, 2}]

\* The second job: completed with an estimate sale, or not completed.
SecondTechJobs ==
    {[ID |-> "J2", Status |-> "Completed", JobsSubtotal |-> Dec(200),
      EstimateSalesSubtotal |-> Dec(100), TotalHoursWorked |-> Dec(1),
      EstimateCount |-> 1],
     [ID |-> "J2", Status |-> "Scheduled", JobsSubtotal |-> Dec(200),
      EstimateSalesSubtotal |-> Dec(100), TotalHoursWorked |-> Dec(1),
      EstimateCount |-> 1]}

\* The associations of technician 1: any roles on J1 and J2, and possibly
\* the primary role on a job that is not among the jobs handed over.
FirstTechnicianAssociations ==
    SUBSET ([JobID : {"J1", "J2"}, TechnicianID : {1},
             Role : {"assigned", "sold_by", "primary"}]
            \cup {[JobID |-> "J9", TechnicianID |-> 1, Role |-> "primary"]})

\* The associations of the others: technician 2 sold J1, technician 3 (whose
\* id is not handed over) ran it.
OtherTechnicianAssociations ==
    {{},
     {[JobID |-> "J1", TechnicianID |-> 2, Role |-> "sold_by"],
      [JobID |-> "J1", TechnicianID |-> 3, Role |-> "primary"]}}

JobMetricWithProfit(id, revenue, profit) ==
    [JobID |-> id, Revenue |-> revenue, TotalCosts |-> revenue - profit,
     GrossProfit |-> profit, GrossMarginPct |-> GrossMarginPct(revenue, profit),
     InvoiceCount |-> 1, HasAdjustment |-> FALSE]

\* The stored job metrics: none, a profit or a loss for J1; none or a profit
\* for J2.
TechJobMetricValues ==
    {m1 \o m2 :
        m1 \in {<<>>, <<JobMetricWithProfit("J1", Dec(500), Dec(200))>>,
                <<JobMetricWithProfit("J1", Dec(500), Dec(-100))>>},
        m2 \in {<<>>, <<JobMetricWithProfit("J2", Dec(200), Dec(50))>>}}

InitTechnicianMetrics ==
    /\ InitImporter
    /\ \E j1 \in TechJobValues("J1"), j2 \in SecondTechJobs,
          own \in FirstTechnicianAssociations, others \in OtherTechnicianAssociations,
          jobMetrics \in TechJobMetricValues :
          calc = [technicianIDs  |-> MetricTechnicianIDs,
                  jobTechnicians |-> own \cup others,
                  jobs           |-> <<j1, j2>>,
                  jobMetrics     |-> jobMetrics,
                  metrics        |-> {},
                  done           |-> FALSE]

\* metrics.CalculateTechnicianMetrics(techIDs, jobTechs, jobs, jobMetrics) is
\* called.
CalculateTechnicians ==
    /\ ~calc.done
    /\ calc' = [calc EXCEPT
                  !.metrics = CalculateTechnicianMetrics(calc.technicianIDs,
                                  calc.jobTechnicians, calc.jobs, calc.jobMetrics),
                  !.done = TRUE]
    /\ UNCHANGED <<db, seqs, pc, run, tx, out, pre>>

NextTechnicianMetrics == CalculateTechnicians

SpecTechnicianMetrics == InitTechnicianMetrics /\ [][NextTechnicianMetrics]_vars

-----------------------------------------------------------------------------
(***************************************************************************)
(* Properties of CalculateTechnicianMetrics                                *)
(* (specification SpecTechnicianMetrics)                                   *)
(***************************************************************************)

\* Technician t holds the role on the job with the id.
HoldsRole(t, id, role) ==
    [JobID |-> id, TechnicianID |-> t, Role |-> role] \in calc.jobTechnicians

\* The metrics returned for technician t.
MetricsOfTechnician(t) == {m \in calc.metrics : m.TechnicianID = t}

\* The completed jobs handed over on which t holds the role (as indices).
CompletedWithRole(t, role) ==
    {k \in 1..Len(calc.jobs) :
        calc.jobs[k].Status = "Completed" /\ HoldsRole(t, calc.jobs[k].ID, role)}

\* The sum of f[k] over the indices in S of the jobs handed over.
SumOverJobs(S, f) == SeqSum([k \in 1..Len(calc.jobs) |-> IF k \in S THEN f[k] ELSE 0])

\* What the k-th job adds to the total sales of its primary technician t:
\* with the full revenue subtotal whatever its sign / only when it is > 0.
SaleAsStated(t, k) ==
    IF calc.jobs[k].EstimateSalesSubtotal > 0 THEN calc.jobs[k].EstimateSalesSubtotal
    ELSE IF HoldsRole(t, calc.jobs[k].ID, "sold_by") THEN calc.jobs[k].JobsSubtotal
    ELSE 0

SaleIfPositive(t, k) ==
    IF calc.jobs[k].EstimateSalesSubtotal > 0 THEN calc.jobs[k].EstimateSalesSubtotal
    ELSE IF HoldsRole(t, calc.jobs[k].ID, "sold_by") /\ calc.jobs[k].JobsSubtotal > 0
    THEN calc.jobs[k].JobsSubtotal
    ELSE 0

\* Technician 1 is primary and sold_by on the completed first job, which has
\* no estimate sale and revenue 500, and is not primary on the second.
SameVisitSale ==
    /\ calc.jobs[1].Status = "Completed"
    /\ calc.jobs[1].EstimateSalesSubtotal = 0
    /\ calc.jobs[1].JobsSubtotal = Dec(500)
    /\ HoldsRole(1, calc.jobs[1].ID, "primary")
    /\ HoldsRole(1, calc.jobs[1].ID, "sold_by")
    /\ ~HoldsRole(1, calc.jobs[2].ID, "primary")

C14_OpportunitiesAndConversions ==
    calc.done =>
        \A t \in calc.technicianIDs : \A m \in MetricsOfTechnician(t) :
            /\ m.TotalJobs = Cardinality(CompletedWithRole(t, "primary"))
            /\ m.SoldJobs = Cardinality(CompletedWithRole(t, "sold_by"))
            /\ TechnicianMetricRow(m).opportunities = m.TotalJobs
            /\ TechnicianMetricRow(m).conversions = m.SoldJobs
            /\ TechnicianMetricRow(m).jobs_sold = m.SoldJobs
            /\ m.TotalJobs > 0 =>
                  /\ m.ConversionRate = SomeDec(Percent(Dec(m.SoldJobs), Dec(m.TotalJobs)))
                  /\ (m.SoldJobs = 1 /\ m.TotalJobs = 2) => m.ConversionRate.Decimal = Dec(50)
                  /\ (m.SoldJobs = 2 /\ m.TotalJobs = 1) => m.ConversionRate.Decimal = Dec(200)
                  /\ m.SoldJobs = 0 => m.ConversionRate.Decimal = 0

\* Technician 1 ran and sold the completed first job, and is primary, sold_by
\* and assigned on the second, which is not completed: one opportunity, one
\* conversion, rate 100.
C14_Witness ==
    /\ calc.done
    /\ calc.jobs[1].Status = "Completed"
    /\ calc.jobs[2].Status # "Completed"
    /\ \A role \in {"primary", "sold_by"} : HoldsRole(1, "J1", role)
    /\ \A role \in {"primary", "sold_by", "assigned"} : HoldsRole(1, "J2", role)
    /\ \E m \in MetricsOfTechnician(1) :
          m.TotalJobs = 1 /\ m.SoldJobs = 1 /\ m.ConversionRate = SomeDec(Dec(100))

\* The row SaveTechnicianMetrics sends has no value in the column.
Absent(value) == value = NullDec /\ value # SomeDec(0)

\* C15: in every technician's metric and in the row stored for it, the
\* conversion rate, the average hours per job and the average estimates per
\* job are absent (not zero) when the technician has no opportunity; the
\* average sale and the average gross profit are absent when the technician
\* has no conversion; the average margin is absent when the total sales are
\* zero.
C15_NullVersusZero ==
    calc.done =>
        \A m \in calc.metrics :
            LET row == TechnicianMetricRow(m)
            IN  /\ m.TotalJobs = 0 =>
                      /\ ~m.ConversionRate.Valid
                      /\ ~m.AvgHoursPerJob.Valid
                      /\ ~m.AvgEstimatesPerJob.Valid
                      /\ Absent(row.conversion_rate)
                      /\ Absent(row.avg_hours_per_job)
                      /\ Absent(row.avg_estimates_per_job)
                /\ m.SoldJobs = 0 =>
                      /\ ~m.AvgSale.Valid
                      /\ ~m.AvgGrossProfit.Valid
                      /\ Absent(row.avg_sale)
                      /\ Absent(row.avg_gross_profit)
                /\ m.TotalSales = 0 =>
                      /\ ~m.AvgMarginPct.Valid
                      /\ Absent(row.avg_margin_pct)

\* Technician 2 sold a completed job that has a job metric and ran none:
\* a conversion, no opportunity, no conversion rate.
C15_Witness ==
    /\ calc.done
    /\ \E m \in MetricsOfTechnician(2) :
          /\ m.TotalJobs = 0
          /\ m.SoldJobs = 1
          /\ m.TotalGrossProfit.Valid
          /\ ~m.ConversionRate.Valid
          /\ TechnicianMetricRow(m).conversion_rate = NullDec

\* The job metrics handed over for the k-th job.
JobMetricsOfJob(k) ==
    SelectSeq(calc.jobMetrics, LAMBDA jm : jm.JobID = calc.jobs[k].ID)

\* The completed jobs t sold for which a job metric is handed over.
SoldWithMetric(t) ==
    {k \in CompletedWithRole(t, "sold_by") : Len(JobMetricsOfJob(k)) > 0}

\* C16: a technician's total gross profit is absent when no completed job
\* the technician sold has a job metric, and otherwise is the sum of the
\* gross profit of the job metrics of these jobs (jobs the technician only
\* ran or was assigned to add nothing); the average margin, when it is
\* present, is total gross profit / total sales x 100, and it is present
\* only when the total sales are > 0.
C16_Profitability ==
    calc.done =>
        \A t \in calc.technicianIDs : \A m \in MetricsOfTechnician(t) :
            /\ SoldWithMetric(t) = {} => m.TotalGrossProfit = NullDec
            /\ SoldWithMetric(t) # {} =>
                  m.TotalGrossProfit =
                     SomeDec(SumOverJobs(SoldWithMetric(t),
                                [k \in 1..Len(calc.jobs) |->
                                    IF Len(JobMetricsOfJob(k)) > 0
                                    THEN JobMetricsOfJob(k)[1].GrossProfit ELSE 0]))
            /\ m.AvgMarginPct.Valid =>
                  /\ m.TotalSales > 0
                  /\ m.TotalGrossProfit.Valid
                  /\ m.AvgMarginPct.Decimal =
                        Percent(m.TotalGrossProfit.Decimal, m.TotalSales)
            /\ m.TotalSales <= 0 => m.AvgMarginPct = NullDec

\* Technician 1 sold both jobs, which have metrics with profits 200 and 50,
\* and also ran the first, whose metric counts once: total gross profit 250,
\* with an average margin.
C16_Witness ==
    /\ calc.done
    /\ HoldsRole(1, "J1", "sold_by") /\ HoldsRole(1, "J2", "sold_by")
    /\ HoldsRole(1, "J1", "primary") /\ HoldsRole(1, "J1", "assigned")
    /\ Cardinality(SoldWithMetric(1)) = 2
    /\ \E m \in MetricsOfTechnician(1) :
          /\ m.TotalGrossProfit = SomeDec(Dec(250))
          /\ m.AvgMarginPct.Valid

-----------------------------------------------------------------------------
(***************************************************************************)
(* Further properties of the import pipeline (specification Spec)          *)
(***************************************************************************)

\* The jobs the committed batch of the call stored for which no invoice is
\* stored.
BatchJobsLackingInvoices ==
    {j.id : j \in {x \in JobRowsOfBatch : ~\E i \in db.invoices : i.job_id = x.id}}

FoundWarnings ==
    SelectSeq(out.result.ValidationResult.Warnings,
              LAMBDA w : w.kind = "Found %d jobs without invoices")

\* C17: after a successful import the validation result lists exactly the
\* jobs of this batch for which no invoice is stored, and holds the warning
\* "Found N jobs without invoices", with N their number, exactly when there
\* is such a job; the batch is committed with status "success" whatever the
\* validator found; and a call ends with "validation failed" only when the
\* validator's query itself returned an error.
C17_AdvisoryValidator ==
    /\ Succeeded =>
          /\ out.result.ValidationResult.JobsWithoutInvoices = BatchJobsLackingInvoices
          /\ Len(FoundWarnings) = IF BatchJobsLackingInvoices # {} THEN 1 ELSE 0
          /\ \A k \in 1..Len(FoundWarnings) :
                FoundWarnings[k].n = Cardinality(BatchJobsLackingInvoices)
          /\ \E b \in db.import_batches :
                b.id = out.result.BatchID /\ b.status = "success"
    /\ out.err.msg = "validation failed" =>
          out.err.cause = "failed to check jobs without invoices"

\* A successful import of a job without an invoice, after an earlier batch
\* whose job has no invoice either: only the job of this batch is reported.
C17_Witness ==
    /\ Succeeded
    /\ JobRowsOfBatch # {}
    /\ db.invoices = {}
    /\ pre.jobs # {}
    /\ out.result.ValidationResult.JobsWithoutInvoices = {j.id : j \in JobRowsOfBatch}
    /\ Len(FoundWarnings) = 1

\* The call has created its batch row and is returning or has returned, and
\* not because Commit itself failed.
ReturnsWithBatchRow ==
    /\ pc \in {"commit", "rollback", "done"}
    /\ out.txOpened
    /\ out.err.msg \notin {"failed to create import batch", "failed to commit transaction"}

\* C18: when ImportFiles returns from a run that created its batch row, the
\* status of the row has been changed from "pending" to "success" or
\* "failed", and once the call has returned the row is stored with that
\* status; no stored row has status "pending"; and a call neither changes
\* nor deletes a batch row that was stored before it.
C18_BatchStatusLifecycle ==
    /\ (ReturnsWithBatchRow /\ pc # "done") =>
          \E b \in BatchRowsOfRun(tx) :
              b.id = seqs.import_batches /\ b.status \in {"success", "failed"}
    /\ (ReturnsWithBatchRow /\ pc = "done") =>
          \E b \in BatchRowsOfRun(db) :
              b.id = seqs.import_batches /\ b.status \in {"success", "failed"}
    /\ \A b \in db.import_batches : b.status # "pending"
    /\ pre.import_batches \subseteq db.import_batches

\* What does hold of the stored rows: each is stored with status "success",
\* the status its run gave it before Commit, and no call changes or deletes
\* a row stored before it.
StoredBatchRowsAreFinal ==
    /\ \A b \in db.import_batches : b.status = "success"
    /\ pre.import_batches \subseteq db.import_batches
    /\ pc = "commit" =>
          \E b \in BatchRowsOfRun(tx) :
              b.id = seqs.import_batches /\ b.status = "success"


\* At most one row per job id.
OneRowPerJobID(t) == \A a, b \in t.jobs : a.id = b.id => a = b

\* The job ids the current call's jobs report names.
JobIDsOfRun == {run.jobs[i].JobID : i \in 1..Len(run.jobs)}

\* C20: there is at most one job row per job id, in the committed tables and
\* in the tables as the open transaction sees them, and every job row that
\* was committed when a call started is still stored, with every field and
\* its owning batch id unchanged, whatever the call does (succeed, fail or
\* find the pair already imported).
C20_JobImmutability ==
    /\ OneRowPerJobID(db)
    /\ OneRowPerJobID(tx)
    /\ pre.jobs \subseteq db.jobs
    /\ pc \in {"tx", "commit", "rollback"} => pre.jobs \subseteq tx.jobs

\* A later call whose jobs report names a job an earlier batch stored has
\* failed on that job's insert and returned; the stored row is the earlier
\* batch's.
C20_Witness ==
    /\ pc = "done"
    /\ out.err.msg = "failed to import jobs"
    /\ \E j \in pre.jobs :
          /\ j.id \in JobIDsOfRun
          /\ j.import_batch_id < seqs.import_batches
          /\ j \in db.jobs


-----------------------------------------------------------------------------
(***************************************************************************)
(* Two ImportFiles calls racing on one file pair (specification SpecRace)  *)
(*                                                                         *)
(* Here pc, run, tx and out hold one value per calling process; db and     *)
(* seqs are the one database both processes talk to.  Each process runs    *)
(* ImportFiles once.  The transactions are READ COMMITTED: a statement     *)
(* sees what is committed when it runs, plus its own transaction's writes. *)
(***************************************************************************)

Procs == {1, 2}

\* The file pairs the two processes may be given: clean reports, a report
\* whose second invoice repeats an invoice id, and a malformed jobs report.
RaceFilePairs ==
    {<<jobsFile, invoicesFile>> :
        jobsFile \in {<<JobRecordA>>, <<JobRecordA, JobRecordB>>,
                      <<JobRecordA, JobRecordMalformed>>},
        invoicesFile \in {<<InvoiceRecordP>>, <<InvoiceRecordP, InvoiceRecordP>>}}

InitRace ==
    /\ db = EmptyTables
    /\ seqs = InitSequences
    /\ pc = [p \in Procs |-> "idle"]
    /\ run = [p \in Procs |-> NoRun]
    /\ tx = [p \in Procs |-> EmptyTables]
    /\ out = [p \in Procs |-> NoOut]
    /\ pre = EmptyTables
    /\ calc = NoCalc

\* Process q's open transaction has inserted a batch row for the hash pair
\* and has neither committed nor rolled back: the unique index makes any
\* other insert of the pair wait for it.
HoldsUncommittedBatch(q, hashes) ==
    /\ pc[q] \in {"steps", "commit", "rollback"}
    /\ GetImportBatchByHashes(tx[q], hashes.jobsHash, hashes.invoicesHash)
          \ db.import_batches # {}

\* Steps 1-4 (lines 250-284) of process p, on the pair the other process was
\* given if it has been called: hash, look the pair up in the committed
\* tables, parse, begin.
RaceStart(p) ==
    /\ pc[p] = "idle"
    /\ \E pair \in RaceFilePairs :
          LET hashes   == CalculateFileHashes(pair[1], pair[2])
              existing == GetImportBatchByHashes(db, hashes.jobsHash, hashes.invoicesHash)
              parsed   == parseFiles(pair[1], pair[2])
              r        == [jobsFile |-> pair[1], invoicesFile |-> pair[2],
                           hashes |-> hashes, jobs |-> <<>>, invoices |-> <<>>,
                           retry |-> FALSE]
          IN  /\ \A q \in Procs \ {p} :
                    pc[q] # "idle" =>
                       pair = <<run[q].jobsFile, run[q].invoicesFile>>
              /\ IF existing # {}
                 THEN /\ run' = [run EXCEPT ![p] = r]
                      /\ out' = [out EXCEPT ![p] =
                                   [NoOut EXCEPT !.result =
                                      AlreadyImportedResult(CHOOSE b \in existing : TRUE)]]
                      /\ pc' = [pc EXCEPT ![p] = "done"]
                      /\ UNCHANGED tx
                 ELSE IF parsed.err # NoErr
                 THEN /\ run' = [run EXCEPT ![p] = r]
                      /\ out' = [out EXCEPT ![p] =
                                   [NoOut EXCEPT
                                      !.err = Wrap("failed to parse files", parsed.err),
                                      !.parsed = TRUE]]
                      /\ pc' = [pc EXCEPT ![p] = "done"]
                      /\ UNCHANGED tx
                 ELSE /\ run' = [run EXCEPT ![p] =
                                   [r EXCEPT !.jobs = parsed.jobs,
                                             !.invoices = parsed.invoices]]
                      /\ out' = [out EXCEPT ![p] =
                                   [NoOut EXCEPT !.parsed = TRUE, !.txOpened = TRUE]]
                      /\ tx' = [tx EXCEPT ![p] = db]
                      /\ pc' = [pc EXCEPT ![p] = "tx"]
    /\ UNCHANGED <<db, seqs, pre, calc>>

\* Step 5 (lines 289-300) of process p.  The insert waits while another
\* transaction holds an uncommitted row for the pair; then it is checked
\* against the committed rows.
RaceCreateImportBatch(p) ==
    /\ pc[p] = "tx"
    /\ \A q \in Procs \ {p} : ~HoldsUncommittedBatch(q, run[p].hashes)
    /\ LET s5 == CreateImportBatch(db, seqs,
                     [JobReportHash     |-> run[p].hashes.jobsHash,
                      InvoiceReportHash |-> run[p].hashes.invoicesHash,
                      RowCountJobs      |-> Len(run[p].jobs),
                      RowCountInvoices  |-> Len(run[p].invoices),
                      Status            |-> "pending"])
       IN  /\ seqs' = s5.seq
           /\ tx' = [tx EXCEPT ![p] = s5.t]
           /\ IF s5.err
              THEN /\ out' = [out EXCEPT ![p].err = Err("failed to create import batch"),
                                         ![p].result = NoResult]
                   /\ pc' = [pc EXCEPT ![p] = "rollback"]
              ELSE /\ out' = out
                   /\ pc' = [pc EXCEPT ![p] = "steps"]
    /\ UNCHANGED <<db, run, pre, calc>>

\* Steps 6-11 (lines 302-390) of process p, which holds the pair's batch row.
RaceSteps(p) ==
    /\ pc[p] = "steps"
    /\ \E fault \in Faults :
          LET batch == CHOOSE b \in GetImportBatchByHashes(tx[p], run[p].hashes.jobsHash,
                                                           run[p].hashes.invoicesHash) : TRUE
              r == AfterCreateImportBatch(run[p].jobs, run[p].invoices, fault,
                       [err |-> FALSE, t |-> tx[p], seq |-> seqs, row |-> batch])
          IN  /\ tx' = [tx EXCEPT ![p] = r.t]
              /\ seqs' = r.seq
              /\ out' = [out EXCEPT ![p].err = r.err, ![p].result = r.result,
                                    ![p].printed = r.printed]
              /\ pc' = [pc EXCEPT ![p] = IF r.commit THEN "commit" ELSE "rollback"]
    /\ UNCHANGED <<db, run, pre, calc>>

\* Step 12 (lines 393-409) of process p.
RaceCommit(p) ==
    /\ pc[p] = "commit"
    /\ db' = tx[p]
    /\ tx' = [tx EXCEPT ![p] = EmptyTables]
    /\ pc' = [pc EXCEPT ![p] = "done"]
    /\ UNCHANGED <<seqs, run, out, pre, calc>>

\* tx.Commit of process p fails (lines 393-395).
RaceCommitFails(p) ==
    /\ pc[p] = "commit"
    /\ tx' = [tx EXCEPT ![p] = EmptyTables]
    /\ out' = [out EXCEPT ![p].err = Err("failed to commit transaction"),
                          ![p].result = NoResult]
    /\ pc' = [pc EXCEPT ![p] = "done"]
    /\ UNCHANGED <<db, seqs, run, pre, calc>>

\* The deferred tx.Rollback() (line 284) of process p after an early return.
RaceRollback(p) ==
    /\ pc[p] = "rollback"
    /\ tx' = [tx EXCEPT ![p] = EmptyTables]
    /\ pc' = [pc EXCEPT ![p] = "done"]
    /\ UNCHANGED <<db, seqs, run, out, pre, calc>>

NextRace ==
    \E p \in Procs :
        \/ RaceStart(p)
        \/ RaceCreateImportBatch(p)
        \/ RaceSteps(p)
        \/ RaceCommit(p)
        \/ RaceCommitFails(p)
        \/ RaceRollback(p)

SpecRace == InitRace /\ [][NextRace]_vars


-----------------------------------------------------------------------------
(***************************************************************************)
(* Properties of racing imports (specification SpecRace)                   *)
(***************************************************************************)

\* Process p found no batch for the pair at its lookup and began a
\* transaction.
PassedLookup(p) == out[p].txOpened

\* Process p has returned from the transaction (the deferred Rollback may
\* still be pending).
Returned(p) == PassedLookup(p) /\ pc[p] \in {"rollback", "done"}

\* Process p's transaction is committed and p returned its result.
Committed(p) == PassedLookup(p) /\ pc[p] = "done" /\ out[p].err = NoErr

SameHashPair(a, b) ==
    /\ a.job_report_hash = b.job_report_hash
    /\ a.invoice_report_hash = b.invoice_report_hash

\* Each business table of t holds one row per key, and every job and
\* invoice belongs to a batch row of t.
StoredOnce(t) ==
    /\ \A a, b \in t.customers : a.id = b.id => a = b
    /\ \A a, b \in t.jobs : a.id = b.id => a = b
    /\ \A a, b \in t.invoices : a.id = b.id => a = b
    /\ \A a, b \in t.technicians : a.name = b.name => a = b
    /\ \A a, b \in t.job_metrics : a.job_id = b.job_id => a = b
    /\ \A a, b \in t.technician_metrics : a.technician_id = b.technician_id => a = b
    /\ \A j \in t.jobs : \E b \in t.import_batches : j.import_batch_id = b.id
    /\ \A i \in t.invoices : \E b \in t.import_batches : i.import_batch_id = b.id

\* C19: when two ImportFiles calls race on one file pair, the committed
\* tables never hold two batch rows for the pair and hold the business data
\* once, all of it owned by that one batch; at most one call commits; a call
\* that passed the lookup and attempted its batch insert after the committing
\* call's insert returns the error "failed to create import batch" with a nil
\* result (so not AlreadyImported = true), and that error is returned only
\* when the other call's row is committed; and no call attempts the batch
\* insert twice.
C19_RacingImports ==
    /\ \A a, b \in db.import_batches : SameHashPair(a, b) => a = b
    /\ StoredOnce(db)
    /\ \A p, q \in Procs : Committed(p) /\ Committed(q) => p = q
    /\ \A p \in Procs :
          Committed(p) =>
             /\ ~out[p].result.AlreadyImported
             /\ \E b \in db.import_batches : b.id = out[p].result.BatchID
    /\ \A p, q \in Procs :
          (/\ p # q
           /\ Committed(q)
           /\ out[q].result.BatchID < seqs.import_batches
           /\ Returned(p))
          => /\ out[p].err.msg = "failed to create import batch"
             /\ out[p].result = NoResult
    /\ \A p \in Procs :
          out[p].err.msg = "failed to create import batch" =>
             /\ out[p].result = NoResult
             /\ \E q \in Procs \ {p} : Committed(q)
             /\ GetImportBatchByHashes(db, run[p].hashes.jobsHash,
                                       run[p].hashes.invoicesHash) # {}
    /\ seqs.import_batches <= Cardinality({p \in Procs : PassedLookup(p)})

\* Both calls passed the lookup before either committed; one has committed
\* batch 1 with its jobs, the other has failed on the batch insert and
\* returned.
C19_Witness ==
    \E p, q \in Procs :
        /\ p # q
        /\ Committed(q)
        /\ out[q].result.BatchID = 1
        /\ db.jobs # {}
        /\ PassedLookup(p)
        /\ pc[p] = "done"
        /\ out[p].err.msg = "failed to create import batch"
        /\ seqs.import_batches = 2


-----------------------------------------------------------------------------
(***************************************************************************)
(* Properties of the stored technician metrics                             *)
(* (specification SpecQualification)                                       *)
(***************************************************************************)

\* The technician-metrics step of the call ran without an error (nothing was
\* printed at lines 377-380).
TechMetricsStepSucceeded == out.printed = NoErr

TechnicianIDsOf(t) == {x.id : x \in t.technicians}

\* Technician id holds some role on a stored completed job.
HasCompletedJob(t, id) ==
    \E jt \in t.job_technicians :
        /\ jt.technician_id = id
        /\ \E j \in t.jobs : j.id = jt.job_id /\ j.status = "Completed"

\* Table t has exactly one technician_metrics row per technician and none
\* for another id; a technician without a completed job has zero counts and
\* no derived value.
OneMetricRowPerTechnician(t) ==
    /\ {m.technician_id : m \in t.technician_metrics} = TechnicianIDsOf(t)
    /\ \A a, b \in t.technician_metrics : a.technician_id = b.technician_id => a = b
    /\ \A m \in t.technician_metrics :
          ~HasCompletedJob(t, m.technician_id) =>
             /\ m.jobs_sold = 0 /\ m.opportunities = 0 /\ m.conversions = 0
             /\ m.jobs_serviced = 0 /\ m.total_sales = 0
             /\ m.avg_sale = NullDec /\ m.conversion_rate = NullDec
             /\ m.avg_hours_per_job = NullDec /\ m.avg_estimates_per_job = NullDec
             /\ m.avg_gross_profit = NullDec /\ m.avg_margin_pct = NullDec

\* C26: when an import whose technician-metrics step succeeded reaches its
\* commit, and after it has committed, technician_metrics holds exactly one
\* row for every row of technicians and no row for any other id, a
\* technician without a completed job has zero counts and absent derived
\* values, and TechMetricsCalculated is the number of technicians; the
\* committed technician_metrics never holds two rows for an id or a row for
\* an id that is not a technician's.
C26_OneMetricRowPerTechnician ==
    /\ (pc = "commit" /\ TechMetricsStepSucceeded) =>
          /\ OneMetricRowPerTechnician(tx)
          /\ out.result.TechMetricsCalculated = Cardinality(tx.technicians)
    /\ (Succeeded /\ TechMetricsStepSucceeded) =>
          /\ OneMetricRowPerTechnician(db)
          /\ out.result.TechMetricsCalculated = Cardinality(db.technicians)
    /\ {m.technician_id : m \in db.technician_metrics} \subseteq TechnicianIDsOf(db)
    /\ \A a, b \in db.technician_metrics : a.technician_id = b.technician_id => a = b

\* A second successful import, of a canceled job of a technician the first
\* import did not know: two technicians, two metric rows, the new
\* technician's with zero counts.
C26_Witness ==
    /\ Succeeded
    /\ TechMetricsStepSucceeded
    /\ pre.technicians # {}
    /\ Cardinality(db.technicians) = 2
    /\ out.result.TechMetricsCalculated = 2
    /\ \E x \in db.technicians \ pre.technicians :
          /\ ~HasCompletedJob(db, x.id)
          /\ \E m \in db.technician_metrics :
                m.technician_id = x.id /\ m.opportunities = 0


-----------------------------------------------------------------------------
(***************************************************************************)
(* Further properties of CalculateTechnicianMetrics                        *)
(* (specification SpecTechnicianMetrics)                                   *)
(***************************************************************************)

\* The hours and the estimates of the completed jobs on which t is primary.
PrimaryHours(t) ==
    SumOverJobs(CompletedWithRole(t, "primary"),
                [k \in 1..Len(calc.jobs) |-> calc.jobs[k].TotalHoursWorked])

PrimaryEstimates(t) ==
    SumOverJobs(CompletedWithRole(t, "primary"),
                [k \in 1..Len(calc.jobs) |-> calc.jobs[k].EstimateCount])

\* total / opportunities, to DivisionPrecision digits.
PerJob(total, opportunities) == RoundDiv(total * One, opportunities * One)

\* The totals of C27 and the average of the estimates, which are as stated.
TotalsOverPrimaryJobs(t, m) ==
    /\ m.TotalHoursWorked = PrimaryHours(t)
    /\ m.TotalEstimates = PrimaryEstimates(t)
    /\ m.TotalJobs > 0 =>
          m.AvgEstimatesPerJob = SomeDec(PerJob(Dec(m.TotalEstimates), m.TotalJobs))

\* C27 (amended): total hours worked and total estimates of a technician
\* accumulate only over the completed jobs held as primary; whenever
\* opportunities > 0 the average estimates per job is present and is total
\* estimates / opportunities (0 when the total is 0); the average hours per
\* job is present exactly when opportunities > 0 and the total hours are not
\* 0, and is then total hours / opportunities.
C27_EfficiencyAverages ==
    calc.done =>
        \A t \in calc.technicianIDs : \A m \in MetricsOfTechnician(t) :
            /\ TotalsOverPrimaryJobs(t, m)
            /\ (m.TotalJobs > 0 /\ m.TotalHoursWorked # 0) =>
                  m.AvgHoursPerJob = SomeDec(PerJob(m.TotalHoursWorked, m.TotalJobs))
            /\ (m.TotalJobs = 0 \/ m.TotalHoursWorked = 0) => m.AvgHoursPerJob = NullDec

\* C27 as stated: the average hours per job is present whenever
\* opportunities > 0, with value 0 when no hours were worked.
C27_EfficiencyAveragesAsStated ==
    calc.done =>
        \A t \in calc.technicianIDs : \A m \in MetricsOfTechnician(t) :
            /\ TotalsOverPrimaryJobs(t, m)
            /\ m.TotalJobs > 0 =>
                  m.AvgHoursPerJob = SomeDec(PerJob(m.TotalHoursWorked, m.TotalJobs))

\* Technician 1 ran both completed jobs (3 hours and 1 hour, 2 estimates and
\* 1) and also sold one of them: 4 hours and 3 estimates over 2 jobs.
C27_Witness ==
    /\ calc.done
    /\ HoldsRole(1, "J1", "primary") /\ HoldsRole(1, "J2", "primary")
    /\ HoldsRole(1, "J1", "sold_by")
    /\ \E m \in MetricsOfTechnician(1) :
          /\ m.TotalJobs = 2
          /\ m.TotalHoursWorked = Dec(4)
          /\ m.TotalEstimates = 3
          /\ m.AvgHoursPerJob = SomeDec(Dec(2))
          /\ m.AvgEstimatesPerJob = SomeDec(RoundDiv(Dec(3), 2))


\* C28: every conversion rate computed for a technician, when present, is
\* between 0 and 100 inclusive, so it fits the conversion_rate column
\* NUMERIC(5, 2).
C28_ConversionRateRange ==
    calc.done =>
        \A m \in calc.metrics :
            m.ConversionRate.Valid =>
               /\ m.ConversionRate.Decimal >= 0
               /\ m.ConversionRate.Decimal <= Dec(100)
               /\ ~NullableOverflow(5, 2, m.ConversionRate)


-----------------------------------------------------------------------------
(***************************************************************************)
(* Re-appearing job ids (specification Spec)                               *)
(***************************************************************************)

\* The rows of the call's jobs report whose job id was stored before the
\* call or stands in an earlier row of the report.
ReappearingRows ==
    {i \in 1..Len(run.jobs) :
        \/ \E j \in pre.jobs : j.id = run.jobs[i].JobID
        \/ \E k \in 1..(i - 1) : run.jobs[k].JobID = run.jobs[i].JobID}

FirstReappearingRow == CHOOSE i \in ReappearingRows : \A k \in ReappearingRows : i <= k

\* C30: a call with a new hash pair whose jobs report has a job id that is
\* already stored, or has a job id twice, does not get past the job-insert
\* step: unless the customer step failed before it, it returns "failed to
\* import jobs", caused by "failed to insert job" with the id and the row
\* number (index + 1, the header being row 1) of the first such row, or of
\* a row before it whose insert the server rejected; and when it has
\* returned, customers, jobs, invoices, technicians, job_technicians,
\* job_metrics and technician_metrics are as they were before the call.
C30_ReappearingJobID ==
    (pc \in {"rollback", "done"} /\ out.txOpened /\ ReappearingRows # {}) =>
        /\ out.err.msg \in {"failed to import customers", "failed to import jobs"}
        /\ out.err.msg = "failed to import jobs" =>
              /\ out.err.cause = "failed to insert job"
              /\ \E i \in 1..FirstReappearingRow :
                    /\ out.err.row = i + 1
                    /\ out.err.id = run.jobs[i].JobID
        /\ pc = "done" =>
              /\ BusinessTables(db) = BusinessTables(pre)
              /\ db.import_batches = pre.import_batches

\* The second row of the report names a job that an earlier batch stored
\* with an invoice and a job metric: the call failed on row 3.
C30_Witness ==
    /\ pc = "done"
    /\ out.err.msg = "failed to import jobs"
    /\ out.err.row = 3
    /\ \E j \in pre.jobs :
          /\ j.id = out.err.id
          /\ j.id = run.jobs[2].JobID
          /\ \E i \in db.invoices : i.job_id = j.id
          /\ \E m \in db.job_metrics : m.job_id = j.id
    /\ run.jobs[1].JobID # run.jobs[2].JobID


-----------------------------------------------------------------------------
(***************************************************************************)
(* Referential integrity (specification SpecQualification)                 *)
(***************************************************************************)

\* Every row of t references rows of t: a job its customer and its batch,
\* an invoice a job of the invoice's batch, a job_technicians row its job and
\* its technician, a job_metrics row a completed job.
References(t) ==
    /\ \A j \in t.jobs :
          /\ \E c \in t.customers : c.id = j.customer_id
          /\ \E b \in t.import_batches : b.id = j.import_batch_id
    /\ \A i \in t.invoices :
          \E j \in t.jobs : j.id = i.job_id /\ j.import_batch_id = i.import_batch_id
    /\ \A jt \in t.job_technicians :
          /\ \E j \in t.jobs : j.id = jt.job_id
          /\ \E x \in t.technicians : x.id = jt.technician_id
    /\ \A m \in t.job_metrics :
          \E j \in t.jobs : j.id = m.job_id /\ j.status = "Completed"

\* The tables after step 8 (lines 335-344), and those after each step before.
ReferencesAfterInvoices(s8) == References(s8.t)

ReferencesAfterTechnicians(s5, s7, s75) ==
    /\ References(s75.t)
    /\ s75.err = NoErr =>
          ReferencesAfterInvoices(
              importInvoices(s75.t, run.invoices, s5.row.id, s7.validJobIDs, NoFault))

ReferencesAfterJobs(s5, s7) ==
    /\ References(s7.t)
    /\ s7.err = NoErr =>
          ReferencesAfterTechnicians(s5, s7,
              ImportTechnicians(s7.t, s5.seq, run.jobs, NoFault))

ReferencesAfterCustomers(s5, s6) ==
    /\ References(s6.t)
    /\ ReferencesAfterJobs(s5, importJobs(s6.t, run.jobs, s5.row.id, NoFault))

ReferencesAfterBatch(s5) ==
    /\ References(s5.t)
    /\ ~s5.err => ReferencesAfterCustomers(s5, importCustomers(s5.t, run.jobs, NoFault))

\* C29: in the committed tables every job references a stored customer and a
\* stored batch with status "success", every invoice a stored job of the
\* invoice's own batch, every job_technicians row a stored job and a stored
\* technician, every job_metrics row a stored completed job; the same
\* references hold in what a transaction holds when it commits or is
\* rolled back, and in the tables as each of the steps batch, customers,
\* jobs, technician associations, invoices leaves them, so no step inserts a
\* row before the row it references.
C29_ReferentialIntegrity ==
    /\ References(db)
    /\ \A j \in db.jobs :
          \E b \in db.import_batches : b.id = j.import_batch_id /\ b.status = "success"
    /\ pc \in {"commit", "rollback"} => References(tx)
    /\ pc = "tx" =>
          ReferencesAfterBatch(
              CreateImportBatch(tx, seqs,
                  [JobReportHash     |-> run.hashes.jobsHash,
                   InvoiceReportHash |-> run.hashes.invoicesHash,
                   RowCountJobs      |-> Len(run.jobs),
                   RowCountInvoices  |-> Len(run.invoices),
                   Status            |-> "pending"]))

\* Two committed batches: the first stored a completed job with its invoice,
\* technician associations and job metric, the second a canceled job with
\* an invoice.
C29_Witness ==
    /\ Succeeded
    /\ Cardinality(db.import_batches) = 2
    /\ db.job_metrics # {}
    /\ db.job_technicians # {}
    /\ \E j \in db.jobs :
          /\ j.status = "Canceled"
          /\ j.import_batch_id = 2
          /\ \E i \in db.invoices : i.job_id = j.id /\ i.import_batch_id = 2
    /\ \E j \in db.jobs :
          /\ j.import_batch_id = 1
          /\ \E i \in db.invoices : i.job_id = j.id /\ i.import_batch_id = 1


-----------------------------------------------------------------------------
(***************************************************************************)
(* Imports of one customer's jobs with their dates and technicians         *)
(* (specification SpecAttribution)                                         *)
(***************************************************************************)

\* A part of an assigned-technicians cell with blanks around the name.
Padded(name) == [name |-> name, padded |-> TRUE]

\* Jobs of customer C1, whose name differs from row to row.  J1 is sold and
\* run by A; J2 is run by B and assigned to A (twice, once with blanks), to
\* nobody (an empty part) and to B; J3 is sold by A, run by nobody and
\* assigned to B.  Each has one of a few completion dates, or none.
AttributionJobRecords(id) ==
    IF id = "J1"
    THEN {[JobRecordA EXCEPT !.CustomerName = Cell("N1"), !.CompletionDate = d] :
             d \in {NullTime, SomeTime(2)}}
    ELSE IF id = "J2"
    THEN {[JobRecordA EXCEPT !.JobID = "J2", !.CustomerName = Cell("N2"),
                             !.CompletionDate = d,
                             !.SoldBy = Cell(""), !.PrimaryTechnician = Cell("B"),
                             !.AssignedTechnicians =
                                 <<Padded("A"), Cell("A"), Padded(""), Cell("B")>>] :
             d \in {NullTime, SomeTime(1), SomeTime(3)}}
    ELSE {[JobRecordA EXCEPT !.JobID = "J3", !.CustomerName = Cell("N3"),
                             !.CompletionDate = d,
                             !.PrimaryTechnician = Cell(""),
                             !.AssignedTechnicians = <<Cell("B")>>] :
             d \in {SomeTime(1), SomeTime(3)}}

\* The reports: at most MaxJobRows of these rows, in the order of their ids.
AttributionJobFiles ==
    {SelectSeq(<<r1, r2, r3>>, LAMBDA x : x.JobID \in keep) :
        r1 \in AttributionJobRecords("J1"), r2 \in AttributionJobRecords("J2"),
        r3 \in AttributionJobRecords("J3"),
        keep \in {k \in SUBSET {"J1", "J2", "J3"} : Cardinality(k) <= MaxJobRows}}

\* ImportFiles is called on such a jobs report, with or without an invoice
\* of J1.
CallAttribution ==
    /\ pc = "idle"
    /\ \E jobsFile \in AttributionJobFiles,
          invoicesFile \in {<<>>, <<InvoiceRecordP>>} :
          Start(jobsFile, invoicesFile, FALSE)

NextAttribution ==
    \/ CallAttribution
    \/ RunTransaction
    \/ Commit
    \/ CommitFails
    \/ Rollback
    \/ Return
    \/ Retry

SpecAttribution == Init /\ [][NextAttribution]_vars


-----------------------------------------------------------------------------
(***************************************************************************)
(* Properties of customers and technicians (specification SpecAttribution) *)
(***************************************************************************)

\* The completion dates of the jobs of t that satisfy the test.
CompletionDatesOf(t, Test(_)) ==
    {j.job_completion_date.Time :
        j \in {x \in t.jobs : Test(x) /\ x.job_completion_date.Valid}}

Earliest(dates) ==
    IF dates = {} THEN NullTime ELSE SomeTime(CHOOSE d \in dates : \A e \in dates : d <= e)

Latest(dates) ==
    IF dates = {} THEN NullTime ELSE SomeTime(CHOOSE d \in dates : \A e \in dates : d >= e)

\* Each customer's dates in t are the earliest and the latest completion
\* date of the customer's jobs in t.
CustomerDatesAreRollingMinMax(t) ==
    \A c \in t.customers :
        LET dates == CompletionDatesOf(t, LAMBDA j : j.customer_id = c.id)
        IN  /\ c.first_job_date = Earliest(dates)
            /\ c.last_job_date = Latest(dates)

\* C21: in the committed tables, and in a transaction about to commit, each
\* customer's first_job_date is the minimum and last_job_date the maximum of
\* the completion dates of all stored jobs of the customer, absent only if
\* none of them has one; and a call never raises the first_job_date or
\* lowers the last_job_date a customer had before it, nor makes one absent.
C21_CustomerRollingDates ==
    /\ CustomerDatesAreRollingMinMax(db)
    /\ pc = "commit" => CustomerDatesAreRollingMinMax(tx)
    /\ \A old \in pre.customers : \E new \in db.customers :
          /\ new.id = old.id
          /\ old.first_job_date.Valid =>
                new.first_job_date.Valid /\ new.first_job_date.Time <= old.first_job_date.Time
          /\ old.last_job_date.Valid =>
                new.last_job_date.Valid /\ new.last_job_date.Time >= old.last_job_date.Time

\* The customer had jobs completed on day 2 only; a second import brought
\* one job completed on day 3 and one without a date: first_job_date stays 2,
\* last_job_date becomes 3.
C21_Witness ==
    /\ Succeeded
    /\ \E old \in pre.customers :
          /\ old.first_job_date = SomeTime(2)
          /\ old.last_job_date = SomeTime(2)
    /\ \E new \in db.customers :
          /\ new.first_job_date = SomeTime(2)
          /\ new.last_job_date = SomeTime(3)
    /\ Cardinality(db.jobs) = 3
    /\ \E j \in db.jobs : ~j.job_completion_date.Valid


\* The rows of the call's jobs report for the customer, and those of them
\* that have a completion date.
RowsOfCustomer(cid) == {i \in 1..Len(run.jobs) : run.jobs[i].CustomerID = cid}

DatedRowsOfCustomer(cid) ==
    {i \in RowsOfCustomer(cid) : run.jobs[i].JobCompletionDate.Valid}

\* C23: after a successful import, a customer with rows in the report of
\* which at least one has a completion date has the name of a row with the
\* most recent completion date among them, wherever the row stands and also
\* when other rows of the customer (the first included) have no date.
C23_CustomerFieldSelection ==
    Succeeded =>
        \A c \in db.customers :
            DatedRowsOfCustomer(c.id) # {} =>
                \E i \in DatedRowsOfCustomer(c.id) :
                    /\ \A k \in DatedRowsOfCustomer(c.id) :
                          run.jobs[i].JobCompletionDate.Time >=
                             run.jobs[k].JobCompletionDate.Time
                    /\ c.customer_name = run.jobs[i].CustomerName


\* The completion dates of the jobs of t with which the technician is
\* associated in some role.
SeenDates(t, id) ==
    CompletionDatesOf(t, LAMBDA j :
        \E jt \in t.job_technicians : jt.technician_id = id /\ jt.job_id = j.id)

\* No call raises a technician's first_seen_date or lowers its
\* last_seen_date.
SeenDatesOnlyWiden ==
    \A old \in pre.technicians : \E new \in db.technicians :
        /\ new.id = old.id
        /\ old.first_seen_date.Valid =>
              new.first_seen_date.Valid
              /\ new.first_seen_date.Time <= old.first_seen_date.Time
        /\ old.last_seen_date.Valid =>
              new.last_seen_date.Valid
              /\ new.last_seen_date.Time >= old.last_seen_date.Time

\* C25: in the committed tables each technician's first_seen_date is <= and
\* last_seen_date is >= the completion date of every stored job the
\* technician is associated with in any role, also when these jobs come in
\* one batch with different dates; and no call raises a first_seen_date or
\* lowers a last_seen_date.
C25_TechnicianSeenDates ==
    /\ \A x \in db.technicians : \A d \in SeenDates(db, x.id) :
          /\ x.first_seen_date.Valid /\ x.first_seen_date.Time <= d
          /\ x.last_seen_date.Valid /\ x.last_seen_date.Time >= d
    /\ SeenDatesOnlyWiden


\* The job_technicians rows of t for the job in the role, and the names of
\* their technicians.
Associations(t, jobID, role) ==
    {jt \in t.job_technicians : jt.job_id = jobID /\ jt.role = role}

AssociatedNames(t, jobID, role) ==
    {x.name : x \in {y \in t.technicians :
                        \E jt \in Associations(t, jobID, role) : jt.technician_id = y.id}}

\* The name in a cell of the jobs report, if it has one.
NameIn(cell) == IF cell.name = "" THEN {} ELSE {cell.name}

\* The distinct non-empty trimmed names of an assigned-technicians cell.
NamesIn(parts) == {parts[i].name : i \in 1..Len(parts)} \ {""}

\* In t, the associations of every job of the call's report are those its
\* row asks for, each name with one row.
AssociationsAsReported(t) ==
    \A i \in 1..Len(run.jobsFile) :
        LET row == run.jobsFile[i]
        IN  /\ AssociatedNames(t, row.JobID, "sold_by") = NameIn(row.SoldBy)
            /\ Cardinality(Associations(t, row.JobID, "sold_by")) =
                  Cardinality(NameIn(row.SoldBy))
            /\ AssociatedNames(t, row.JobID, "primary") = NameIn(row.PrimaryTechnician)
            /\ Cardinality(Associations(t, row.JobID, "primary")) =
                  Cardinality(NameIn(row.PrimaryTechnician))
            /\ AssociatedNames(t, row.JobID, "assigned") = NamesIn(row.AssignedTechnicians)
            /\ Cardinality(Associations(t, row.JobID, "assigned")) =
                  Cardinality(NamesIn(row.AssignedTechnicians))

\* C22: for each job of a batch whose import reaches its commit, the stored
\* associations are: one "sold_by" row if the sold-by cell is non-empty and
\* none otherwise, one "primary" row if the primary-technician cell is
\* non-empty and none otherwise, and one "assigned" row per distinct
\* non-empty trimmed name of the assigned list, each for the technician of
\* that name; and ImportTechnicians itself returns no error on any report,
\* also one that repeats a name in a list or gives one technician several
\* roles on a job.
C22_TechnicianAttribution ==
    /\ pc = "commit" => AssociationsAsReported(tx)
    /\ Succeeded => AssociationsAsReported(db)
    /\ pc = "tx" => ImportTechnicians(tx, seqs, run.jobs, NoFault).err = NoErr

\* A committed batch of J1, sold and run by A, and J2, run by B and assigned
\* to " A ", "A", " " and "B": A has two roles on J1, J2 has two assigned
\* rows and no sold_by row.
C22_Witness ==
    /\ Succeeded
    /\ \E a, b \in db.technicians :
          /\ a.name = "A" /\ b.name = "B"
          /\ Associations(db, "J1", "sold_by") =
                {[job_id |-> "J1", technician_id |-> a.id, role |-> "sold_by"]}
          /\ Associations(db, "J1", "primary") =
                {[job_id |-> "J1", technician_id |-> a.id, role |-> "primary"]}
          /\ Associations(db, "J2", "assigned") =
                {[job_id |-> "J2", technician_id |-> a.id, role |-> "assigned"],
                 [job_id |-> "J2", technician_id |-> b.id, role |-> "assigned"]}
          /\ Associations(db, "J2", "sold_by") = {}
    /\ Len(run.jobsFile) = 2
    /\ Len(run.jobsFile[2].AssignedTechnicians) = 4


\* The distinct technician names of the call's jobs report.
NamesOfReport ==
    UNION {NameIn(run.jobsFile[i].SoldBy) \cup NameIn(run.jobsFile[i].PrimaryTechnician)
              \cup NamesIn(run.jobsFile[i].AssignedTechnicians) :
           i \in 1..Len(run.jobsFile)}

\* In t there is one technician row per name and per id, and every name on
\* a stored job, in any role, has its association with the technician of
\* that name.
OneTechnicianPerName(t) ==
    /\ \A a, b \in t.technicians : (a.name = b.name \/ a.id = b.id) => a = b
    /\ \A j \in t.jobs :
          /\ j.sold_by_technician.Valid =>
                \E x \in t.technicians :
                    /\ x.name = j.sold_by_technician.String
                    /\ Associations(t, j.id, "sold_by") =
                          {[job_id |-> j.id, technician_id |-> x.id, role |-> "sold_by"]}
          /\ j.primary_technician.Valid =>
                \E x \in t.technicians :
                    /\ x.name = j.primary_technician.String
                    /\ Associations(t, j.id, "primary") =
                          {[job_id |-> j.id, technician_id |-> x.id, role |-> "primary"]}
          /\ \A n \in NamesIn(j.assigned_technician) :
                \E x \in t.technicians :
                    /\ x.name = n
                    /\ [job_id |-> j.id, technician_id |-> x.id, role |-> "assigned"]
                          \in t.job_technicians

\* C24: in the committed tables, and in a transaction about to commit, there
\* is at most one technician row per name, and every occurrence of a name on
\* a stored job, in any role and from any batch, is associated with that
\* row's id; a technician keeps its id and name across calls; in one run
\* ImportTechnicians executes the upsert once per distinct name of the
\* report (each execution takes one value of the id sequence) and returns
\* the number of distinct names, which a successful call reports as
\* TechniciansImported.
C24_TechnicianIdentity ==
    /\ OneTechnicianPerName(db)
    /\ pc = "commit" => OneTechnicianPerName(tx)
    /\ \A old \in pre.technicians :
          \E new \in db.technicians : new.id = old.id /\ new.name = old.name
    /\ pc = "tx" =>
          LET r == ImportTechnicians(tx, seqs, run.jobs, NoFault)
          IN  /\ r.seq.technicians - seqs.technicians = Cardinality(NamesOfReport)
              /\ r.count = Cardinality(NamesOfReport)
    /\ Succeeded => out.result.TechniciansImported = Cardinality(NamesOfReport)

\* A second committed batch names A, whom the first batch stored, and B, who
\* is new: A kept id 1, B got id 3 (the upsert of A took 2 from the
\* sequence), and both batches' jobs are associated with the one row of A.
C24_Witness ==
    /\ Succeeded
    /\ pre.technicians # {}
    /\ \A x \in pre.technicians : x.name = "A" /\ x.id = 1
    /\ NamesOfReport = {"A", "B"}
    /\ out.result.TechniciansImported = 2
    /\ \E a, b \in db.technicians : a.name = "A" /\ a.id = 1 /\ b.name = "B" /\ b.id = 3
    /\ \E j1, j2 \in db.job_technicians :
          /\ j1.technician_id = 1 /\ j2.technician_id = 1
          /\ \E x, y \in db.jobs :
                /\ x.id = j1.job_id /\ y.id = j2.job_id
                /\ x.import_batch_id = 1 /\ y.import_batch_id = 2

=============================================================================
